---------------------------- MODULE Spec2Model ----------------------------
(***************************************************************************)
(* Factor-Investing-Analyzer: the data loader (src/src/factors.py), the    *)
(* statistics engine (src/src/analysis.py) and the pipeline                *)
(* (src/src/main.py, src/config.py) as state machines.                     *)
(*                                                                         *)
(* Numbers.  A float is modelled as an exact rational <<n, d>> in lowest   *)
(* terms with d > 0; <<0, 0>> is NaN and <<1, 0>>, <<-1, 0>> are +inf and  *)
(* -inf, so that a division by zero or a missing value is a value of the   *)
(* result, as it is in pandas, and never an error of the model.            *)
(* Dates.  A date is a day number; a Series is a function from its dates   *)
(* to values, read in ascending date order (yfinance and bdate_range both  *)
(* return ascending indexes).                                              *)
(***************************************************************************)
EXTENDS Integers, Sequences, FiniteSets, TLC

\* ------------------------------------------------------------------ bounds
\* Days of the analysis period are numbered 1..MaxDate.
MaxDate == 3
\* The per-process string-hash salts (PYTHONHASHSEED) are 0..MaxSalt.
MaxSalt == 1
\* The seed space of the random generator, standing for 2**32.
SeedSpace == 5
\* Rows of a price table handed to the statistics engine.
MaxRows == 4
\* Rows of a return table drawn directly.
MaxLen == 3
\* Program runs (processes) of the synthetic-data specification.
MaxRuns == 2
\* The largest numerator of an exponent a power is computed for exactly.
MaxExponent == 4

\* --------------------------------------------------------------- rationals
Abs(x) == IF x < 0 THEN -x ELSE x

Sign(x) == IF x > 0 THEN 1 ELSE IF x < 0 THEN -1 ELSE 0

RECURSIVE GCD(_, _)
GCD(a, b) == IF b = 0 THEN a ELSE GCD(b, a % b)

NaN == <<0, 0>>

Rat(n, d) ==
    IF d = 0 THEN <<Sign(n), 0>>
    ELSE LET g == GCD(Abs(n), Abs(d))
         IN  IF d < 0 THEN <<(-n) \div g, (-d) \div g>>
                      ELSE <<n \div g, d \div g>>

Num(n) == <<n, 1>>

IsNaN(x) == x = NaN

IsFinite(x) == x[2] # 0

RNeg(x) == <<-x[1], x[2]>>

RAdd(x, y) ==
    IF IsNaN(x) \/ IsNaN(y) THEN NaN
    ELSE IF x[2] = 0 /\ y[2] = 0 THEN (IF x = y THEN x ELSE NaN)
    ELSE IF x[2] = 0 THEN x
    ELSE IF y[2] = 0 THEN y
    ELSE LET g == GCD(x[2], y[2])
         IN  Rat(x[1] * (y[2] \div g) + y[1] * (x[2] \div g), (x[2] \div g) * y[2])

RSub(x, y) == RAdd(x, RNeg(y))

RMul(x, y) ==
    IF IsNaN(x) \/ IsNaN(y) THEN NaN
    ELSE IF x[2] = 0 \/ y[2] = 0 THEN <<Sign(x[1]) * Sign(y[1]), 0>>
    ELSE LET g1 == GCD(Abs(x[1]), y[2])
             g2 == GCD(Abs(y[1]), x[2])
         IN  Rat((x[1] \div g1) * (y[1] \div g2), (x[2] \div g2) * (y[2] \div g1))

RDiv(x, y) ==
    IF IsNaN(x) \/ IsNaN(y) THEN NaN
    ELSE IF y[2] = 0 THEN (IF x[2] = 0 THEN NaN ELSE <<0, 1>>)
    ELSE IF y[1] = 0 THEN <<Sign(x[1]), 0>>
    ELSE RMul(x, IF y[1] < 0 THEN <<-y[2], -y[1]>> ELSE <<y[2], y[1]>>)

RLe(x, y) ==
    IF IsNaN(x) \/ IsNaN(y) THEN FALSE
    ELSE IF x[2] = 0 THEN (x[1] < 0 \/ x = y)
    ELSE IF y[2] = 0 THEN y[1] > 0
    ELSE LET g == GCD(x[2], y[2])
         IN  x[1] * (y[2] \div g) <= y[1] * (x[2] \div g)

RLt(x, y) == RLe(x, y) /\ x # y

\* ------------------------------------------------------ series and tables
Dates == 1..MaxDate

RECURSIVE SortedIndex(_)
SortedIndex(S) ==
    IF S = {} THEN <<>>
    ELSE LET m == CHOOSE x \in S : \A y \in S : x <= y
         IN  <<m>> \o SortedIndex(S \ {m})

Range(s) == {s[i] : i \in 1..Len(s)}

EmptySeries == [d \in {} |-> NaN]

\* Series * scalar.
ScaleSeries(s, k) == [d \in DOMAIN s |-> RMul(s[d], k)]

\* pandas.DataFrame(dict of Series): the columns in insertion order, the
\* index the sorted union of the Series' indexes, NaN where a Series has no
\* value on a date.
DataFrame(columns, series) ==
    LET union == UNION {DOMAIN series[c] : c \in Range(columns)}
    IN  [columns |-> columns,
         index   |-> SortedIndex(union),
         data    |-> [c \in Range(columns) |->
                        [d \in union |-> IF d \in DOMAIN series[c]
                                         THEN series[c][d] ELSE NaN]]]

\* The rows of table t kept: those whose date satisfies Keep.
FilterRows(t, Keep(_)) ==
    [columns |-> t.columns,
     index   |-> SelectSeq(t.index, Keep),
     data    |-> [c \in Range(t.columns) |->
                    [d \in {x \in Range(t.index) : Keep(x)} |-> t.data[c][d]]]]

\* DropNaAll without the dropna: every row of the assembled frame is kept.
KeepAllRows(t) == t

\* DataFrame.dropna(how='all')
DropNaAll(t) ==
    LET Keep(d) == \E c \in Range(t.columns) : ~IsNaN(t.data[c][d])
    IN  FilterRows(t, Keep)

\* DataFrame.dropna(): how='any'
DropNaAny(t) ==
    LET Keep(d) == \A c \in Range(t.columns) : ~IsNaN(t.data[c][d])
    IN  FilterRows(t, Keep)


\* ----------------------------------------------------- the market data source
\* What yf.download answers for one ticker: kind "error" (the call raises),
\* "empty" (a frame without rows), "nocol" (rows, but neither 'Adj Close' nor
\* 'Close'), "close" (a 'Close' column only), "adj" ('Adj Close' and 'Close'),
\* "bad" (a frame whose processing raises); lo..hi are the dates of its rows.
NoRows(k) == [kind |-> k, lo |-> 1, hi |-> 0]

Rows(k, lo, hi) == [kind |-> k, lo |-> lo, hi |-> hi]

Windows == {w \in Dates \X Dates : w[1] <= w[2]}

TickerAnswers ==
    {NoRows("error"), NoRows("empty"), Rows("nocol", 1, MaxDate), Rows("bad", 1, MaxDate)}
    \cup {Rows(k, w[1], w[2]) : k \in {"close", "adj"}, w \in Windows}

CurrencyAnswers ==
    {NoRows("error"), Rows("nocol", 1, MaxDate)}
    \cup {Rows("close", w[1], w[2]) : w \in Windows}

\* The quoted closing price of a ticker on a date (EUR/USD: 1.1, 1.2, ...).
ClosePrice(ticker, d) ==
    IF ticker = "EURUSD=X" THEN Rat(10 + d, 10)
    ELSE IF ticker = "EXSA.DE" THEN Num(40 + 4 * d)
    ELSE Num(20 + d)

\* The adjusted close lies below the close (dividends).
AdjClosePrice(ticker, d) == RSub(ClosePrice(ticker, d), Num(1))

\* The frame yf.download returns: its columns and one Series per column.
Download(ticker, answer) ==
    LET idx == answer.lo .. answer.hi
        close == [d \in idx |-> ClosePrice(ticker, d)]
        adj == [d \in idx |-> AdjClosePrice(ticker, d)]
    IN  [some    |-> answer.kind # "error",
         raises  |-> answer.kind = "bad",
         empty   |-> idx = {},
         columns |-> CASE answer.kind = "adj" -> {"Adj Close", "Close"}
                       [] answer.kind \in {"close", "bad"} -> {"Close"}
                       [] OTHER -> {"Open"},
         adj     |-> adj,
         close   |-> close]

None == [some |-> FALSE, raises |-> FALSE, empty |-> TRUE, columns |-> {},
         adj |-> EmptySeries, close |-> EmptySeries]

\* ------------------------------------------------------------ FactorDataLoader
\* _fetch_data: None when the download raises or returns no rows.
FetchData(ticker, answer) ==
    LET data == Download(ticker, answer)
    IN  IF ~data.some \/ data.empty THEN None ELSE data

\* self.usd_eur_rate: None, or the inverted rate Series.
NoRate == [some |-> FALSE, series |-> EmptySeries]

\* _load_currency_conversion: the loader's usd_eur_rate after the call.
LoadCurrencyConversion(rate, answer) ==
    LET currency_data == FetchData("EURUSD=X", answer)
    IN  IF currency_data.some /\ "Close" \in currency_data.columns
        THEN [some   |-> TRUE,
              series |-> [d \in DOMAIN currency_data.close |->
                            RDiv(Num(1), currency_data.close[d])]]
        ELSE rate

\* Series.reindex(index, method='ffill') at one date: the value of the last
\* rate date at or before d, found by walking back day by day; NaN before the
\* first rate date.
RECURSIVE PadAt(_, _)
PadAt(series, d) ==
    IF d < 1 THEN NaN
    ELSE IF d \in DOMAIN series THEN series[d]
    ELSE PadAt(series, d - 1)

ReindexFfill(series, index) == [d \in index |-> PadAt(series, d)]

FallbackRate == Rat(91, 100)

\* _convert_usd_to_eur without the reindex: the product is aligned on the
\* union of both indexes, NaN where either side has no value.
ConvertUsdToEurUnaligned(rate, usd_prices) ==
    IF rate.some
    THEN [d \in DOMAIN usd_prices \cup DOMAIN rate.series |->
            IF d \in DOMAIN usd_prices /\ d \in DOMAIN rate.series
            THEN RMul(usd_prices[d], rate.series[d]) ELSE NaN]
    ELSE ScaleSeries(usd_prices, FallbackRate)

\* _convert_usd_to_eur
ConvertUsdToEur(rate, usd_prices) ==
    IF rate.some
    THEN LET aligned_rate == ReindexFfill(rate.series, DOMAIN usd_prices)
         IN  [d \in DOMAIN usd_prices |-> RMul(usd_prices[d], aligned_rate[d])]
    ELSE ScaleSeries(usd_prices, FallbackRate)

\* --------------------------------------------------------- synthetic prices
\* Day 1 is a Thursday: days 3 and 4 are a weekend.
IsBusinessDay(d) == ((d + 2) % 7) < 5

BDateRange(start, end) == {d \in start..end : IsBusinessDay(d)}

NameCode(name) ==
    CASE name = "US Market" -> 1
      [] name = "Europe" -> 2
      [] OTHER -> 3

\* hash(name): Python salts the hash of a str with a per-process key, so the
\* value is a function of the name and of the process's salt.
Hash(name, salt) == NameCode(name) * (salt + 1) + salt

\* np.random.seed(hash(name) % (2**32)), the seed space scaled to SeedSpace.
SeedOf(name, salt) == Hash(name, salt) % SeedSpace

\* One step of the global generator and the draw it yields: a log-return of
\* -1, 0 or +1 ticks (np.random.normal, discretised).
NextRandom(s) == (3 * s + 1) % SeedSpace

NormalTicks(s) == (s % 3) - 1

\* exp of a whole number of ticks, one tick a factor 11/10.
RECURSIVE ExpTicks(_)
ExpTicks(k) ==
    IF k = 0 THEN Num(1)
    ELSE IF k > 0 THEN RMul(Rat(11, 10), ExpTicks(k - 1))
    ELSE RMul(Rat(10, 11), ExpTicks(k + 1))

\* The generator state and the cumulative sum after the first n draws.
RECURSIVE DrawState(_, _)
DrawState(seed, n) == IF n = 0 THEN seed ELSE NextRandom(DrawState(seed, n - 1))

RECURSIVE CumSumTicks(_, _)
CumSumTicks(seed, n) ==
    IF n = 0 THEN 0 ELSE CumSumTicks(seed, n - 1) + NormalTicks(DrawState(seed, n))

\* _generate_mock_data: the Series over the business days of the loader's
\* range, and the state the global generator is left in.
GenerateMockData(name, salt, start, end) ==
    LET date_range == SortedIndex(BDateRange(start, end))
        n_days == Len(date_range)
        seed == SeedOf(name, salt)
    IN  [series |-> [d \in Range(date_range) |->
                       LET i == CHOOSE j \in 1..n_days : date_range[j] = d
                       IN  RMul(Num(100), ExpTicks(CumSumTicks(seed, i)))],
         np_random |-> DrawState(seed, n_days)]

\* ------------------------------------------------------------- load_tickers
\* ProcessTicker without the fallback for a frame that has neither price
\* column: the 'Close' column is read whatever the columns are.
ProcessTickerNoSchemaCheck(self, name, ticker, answer, usd_tickers, rate) ==
    LET data == FetchData(ticker, answer)
        prices == IF "Adj Close" \in data.columns THEN data.adj ELSE data.close
    IN  IF ~data.some \/ data.empty \/ data.raises
        THEN [mock |-> TRUE, prices |-> EmptySeries]
        ELSE [mock   |-> FALSE,
              prices |-> IF ticker \in Range(usd_tickers)
                         THEN ConvertUsdToEur(rate, prices) ELSE prices]

\* ProcessTicker converting every fetched series, flagged or not.
ProcessTickerConvertAll(self, name, ticker, answer, usd_tickers, rate) ==
    LET data == FetchData(ticker, answer)
        mock == [mock |-> TRUE, prices |-> EmptySeries]
        fetched(prices) == [mock |-> FALSE, prices |-> ConvertUsdToEur(rate, prices)]
    IN  IF ~data.some \/ data.empty THEN mock
        ELSE IF data.raises THEN mock
        ELSE IF "Adj Close" \in data.columns THEN fetched(data.adj)
        ELSE IF "Close" \in data.columns THEN fetched(data.close)
        ELSE mock

\* One pass of the loop body for (name, ticker): the Series stored under name
\* and whether it is the synthetic one.
ProcessTicker(self, name, ticker, answer, usd_tickers, rate) ==
    LET data == FetchData(ticker, answer)
        mock == [mock |-> TRUE, prices |-> EmptySeries]
        fetched(prices) ==
            [mock   |-> FALSE,
             prices |-> IF ticker \in Range(usd_tickers)
                        THEN ConvertUsdToEur(rate, prices) ELSE prices]
    IN  IF ~data.some \/ data.empty THEN mock
        ELSE IF data.raises THEN mock
        ELSE IF "Adj Close" \in data.columns THEN fetched(data.adj)
        ELSE IF "Close" \in data.columns THEN fetched(data.close)
        ELSE mock

\* The loop over tickers_dict.items(): price_data and the global generator
\* after the first i entries.
RECURSIVE LoadLoop(_, _, _, _, _, _)
LoadLoop(self, tickers_dict, usd_tickers, answers, rate, i) ==
    IF i = 0 THEN [price_data |-> [n \in {} |-> EmptySeries], np_random |-> self.np_random]
    ELSE LET before == LoadLoop(self, tickers_dict, usd_tickers, answers, rate, i - 1)
             name == tickers_dict[i][1]
             ticker == tickers_dict[i][2]
             got == ProcessTicker(self, name, ticker, answers[name], usd_tickers, rate)
             synth == GenerateMockData(name, self.hash_salt, self.start_date, self.end_date)
         IN  IF got.mock
             THEN [price_data |-> (name :> synth.series) @@ before.price_data,
                   np_random  |-> synth.np_random]
             ELSE [price_data |-> (name :> got.prices) @@ before.price_data,
                   np_random  |-> before.np_random]

\* NoSeries off by one: a batch of a single series counts as empty.
NoSeriesOffByOne(price_data) == Cardinality(DOMAIN price_data) <= 1

\* `not price_data`: no series was assembled.
NoSeries(price_data) == DOMAIN price_data = {}

NoTable == [columns |-> <<>>, index |-> <<>>, data |-> [c \in {} |-> EmptySeries]]

\* load_tickers: the loader's fields after the call, whether it raised
\* ValueError('No ticker data was successfully loaded'), and the table.
LoadTickers(self, tickers_dict, usd_tickers, fx, answers) ==
    LET rate == LoadCurrencyConversion(self.usd_eur_rate, fx)
        done == LoadLoop(self, tickers_dict, usd_tickers, answers, rate, Len(tickers_dict))
        columns == [i \in 1..Len(tickers_dict) |-> tickers_dict[i][1]]
    IN  [usd_eur_rate |-> rate,
         np_random    |-> done.np_random,
         raised       |-> NoSeries(done.price_data),
         table        |-> IF NoSeries(done.price_data) THEN NoTable
                          ELSE DropNaAll(DataFrame(columns, done.price_data))]

\* ---------------------------------------------------------------- get_returns
\* The value of column c on the row before position i, as pct_change reads it:
\* under fill_method='pad' the last valid value at or before that row.
RECURSIVE Padded(_, _, _)
Padded(t, c, i) ==
    IF i < 1 THEN NaN
    ELSE IF ~IsNaN(t.data[c][t.index[i]]) THEN t.data[c][t.index[i]]
    ELSE Padded(t, c, i - 1)

\* DataFrame.pct_change(): value / previous value - 1, NaN on the first row.
\* fill is the library's fill_method default: "pad" (pandas 1.x, 2.x) or
\* "none" (pandas 3).
PctChange(t, fill) ==
    LET at(c, i) == IF fill = "pad" THEN Padded(t, c, i)
                    ELSE IF i < 1 THEN NaN ELSE t.data[c][t.index[i]]
        pos(d) == CHOOSE i \in 1..Len(t.index) : t.index[i] = d
    IN  [columns |-> t.columns,
         index   |-> t.index,
         data    |-> [c \in Range(t.columns) |->
                        [d \in Range(t.index) |->
                           RSub(RDiv(at(c, pos(d)), at(c, pos(d) - 1)), Num(1))]]]

PandasFills == {"pad", "none"}

\* get_returns: prices.pct_change().dropna()
GetReturns(prices, fill) == DropNaAny(PctChange(prices, fill))

\* -------------------------------------------------------- PerformanceAnalyzer
\* The value of column c on the i-th row of table t.
Val(t, c, i) == t.data[c][t.index[i]]

\* The table with the shape of t and Cell(c, i) on row i of column c.
MapTable(t, Cell(_, _)) ==
    [columns |-> t.columns,
     index   |-> t.index,
     data    |-> [c \in Range(t.columns) |->
                    [d \in Range(t.index) |->
                       Cell(c, CHOOSE i \in 1..Len(t.index) : t.index[i] = d)]]]

\* (1 + returns).cumprod() on row i: the running product of the rows so far,
\* a NaN row skipped by the product and NaN in the result.
RECURSIVE RunningProduct(_, _, _)
RunningProduct(t, c, i) ==
    IF i = 0 THEN Num(1)
    ELSE IF IsNaN(Val(t, c, i)) THEN RunningProduct(t, c, i - 1)
    ELSE RMul(RunningProduct(t, c, i - 1), RAdd(Num(1), Val(t, c, i)))

CumProd(t, c, i) == IF IsNaN(Val(t, c, i)) THEN NaN ELSE RunningProduct(t, c, i)

InitialValue == Num(100)

\* _returns_to_prices
ReturnsToPrices(returns, initial_value) ==
    LET Cell(c, i) == RMul(initial_value, CumProd(returns, c, i))
    IN  MapTable(returns, Cell)

\* PerformanceAnalyzer.__init__
PerformanceAnalyzer(returns) ==
    [returns |-> returns, prices |-> ReturnsToPrices(returns, InitialValue)]

\* The running sum of the returns up to row i.
RECURSIVE RunningSum(_, _, _)
RunningSum(t, c, i) ==
    IF i = 0 THEN Num(0) ELSE RAdd(RunningSum(t, c, i - 1), Val(t, c, i))

\* calculate_cumulative_returns by cumsum: the returns added, not compounded.
CalculateCumulativeReturnsBySum(self) ==
    LET Cell(c, i) == RunningSum(self.returns, c, i)
    IN  MapTable(self.returns, Cell)

\* calculate_cumulative_returns
CalculateCumulativeReturns(self) ==
    LET Cell(c, i) == RSub(CumProd(self.returns, c, i), Num(1))
    IN  MapTable(self.returns, Cell)

\* The largest valid value of the whole column, whatever the row: .max() in
\* place of .expanding().max().
RECURSIVE MaxUpTo(_, _, _)
MaxUpTo(t, c, i) ==
    IF i = 0 THEN NaN
    ELSE LET before == MaxUpTo(t, c, i - 1)
             here == Val(t, c, i)
         IN  IF IsNaN(here) THEN before
             ELSE IF IsNaN(before) THEN here
             ELSE IF RLe(before, here) THEN here ELSE before

OverallMax(t, c, i) == MaxUpTo(t, c, Len(t.index))

\* Series.expanding().max() on row i: the largest valid value of rows 1..i.
RECURSIVE ExpandingMax(_, _, _)
ExpandingMax(t, c, i) ==
    IF i = 0 THEN NaN
    ELSE LET before == ExpandingMax(t, c, i - 1)
             here == Val(t, c, i)
         IN  IF IsNaN(here) THEN before
             ELSE IF IsNaN(before) THEN here
             ELSE IF RLe(before, here) THEN here ELSE before

\* The drawdown loop of calculate_drawdowns, over a price table.
Drawdowns(prices) ==
    LET Cell(c, i) ==
            LET running_max == ExpandingMax(prices, c, i)
            IN  RDiv(RSub(Val(prices, c, i), running_max), running_max)
    IN  MapTable(prices, Cell)

\* calculate_drawdowns
CalculateDrawdowns(self) == Drawdowns(self.prices)

\* Series.min() of column c over rows 1..i, NaN rows skipped.
RECURSIVE ColumnMin(_, _, _)
ColumnMin(t, c, i) ==
    IF i = 0 THEN NaN
    ELSE LET before == ColumnMin(t, c, i - 1)
             here == Val(t, c, i)
         IN  IF IsNaN(here) THEN before
             ELSE IF IsNaN(before) THEN here
             ELSE IF RLe(here, before) THEN here ELSE before

\* DataFrame.min(): one value per column.
TableMin(t) == [c \in Range(t.columns) |-> ColumnMin(t, c, Len(t.index))]

\* calculate_max_drawdown by .max(): the highest drawdown, not the lowest.
CalculateHighestDrawdown(self) ==
    [c \in Range(self.returns.columns) |->
        MaxUpTo(CalculateDrawdowns(self), c, Len(self.returns.index))]

\* calculate_max_drawdown
CalculateMaxDrawdown(self) == TableMin(CalculateDrawdowns(self))

\* DataFrame.iloc[-1]: the last row, IndexError on a table without rows.
LastRow(t) == [c \in Range(t.columns) |-> Val(t, c, Len(t.index))]

\* get_performance_summary: the 'Total Return' and 'Max Drawdown' columns;
\* raised is the IndexError of iloc[-1] on a return table without rows.
GetPerformanceSummary(self) ==
    IF Len(self.returns.index) = 0
    THEN [raised |-> TRUE, total_return |-> <<>>, max_drawdown |-> <<>>]
    ELSE [raised       |-> FALSE,
          total_return |-> LastRow(CalculateCumulativeReturns(self)),
          max_drawdown |-> CalculateMaxDrawdown(self)]

\* ------------------------------------------------- square roots of rationals
\* A number is a rational <<n, d>> or a root <<s, n, d>>: s * sqrt(n / d) with
\* s the sign and n / d a positive rational that is not a square.
\* The integer square root of n >= 0, by Newton's iteration from x.
RECURSIVE ISqrtFrom(_, _)
ISqrtFrom(n, x) ==
    LET y == (x + n \div x) \div 2
    IN  IF y >= x THEN x ELSE ISqrtFrom(n, y)

ISqrt(n) == IF n = 0 THEN 0 ELSE ISqrtFrom(n, n)

IsSquare(n) == ISqrt(n) * ISqrt(n) = n

IsRoot(x) == Len(x) = 3

SignOf(x) == Sign(x[1])

Square(x) == IF IsRoot(x) THEN <<x[2], x[3]>> ELSE RMul(x, x)

\* s * sqrt(q): NaN for the root of a negative number, as np.sqrt gives.
SignedRoot(s, q) ==
    IF IsNaN(q) \/ q[1] < 0 THEN NaN
    ELSE IF q[1] = 0 \/ s = 0 THEN Num(0)
    ELSE IF q[2] = 0 THEN <<s, 0>>
    ELSE IF IsSquare(q[1]) /\ IsSquare(q[2]) THEN Rat(s * ISqrt(q[1]), ISqrt(q[2]))
    ELSE <<s, q[1], q[2]>>

RSqrt(q) == SignedRoot(1, q)

\* x * y and x / y, also for roots; division by zero as numpy divides floats.
QMul(x, y) ==
    IF ~IsRoot(x) /\ ~IsRoot(y) THEN RMul(x, y)
    ELSE SignedRoot(SignOf(x) * SignOf(y), RMul(Square(x), Square(y)))

QDiv(x, y) ==
    IF ~IsRoot(x) /\ ~IsRoot(y) THEN RDiv(x, y)
    ELSE IF IsNaN(x) \/ IsNaN(y) THEN NaN
    ELSE SignedRoot(SignOf(x) * (IF y = Num(0) THEN 1 ELSE SignOf(y)),
                    RDiv(Square(x), Square(y)))

\* x <= y, also for roots: by the signs, then by the squares.
QLe(x, y) ==
    IF ~IsRoot(x) /\ ~IsRoot(y) THEN RLe(x, y)
    ELSE IF IsNaN(x) \/ IsNaN(y) THEN FALSE
    ELSE IF SignOf(x) # SignOf(y) THEN SignOf(x) < SignOf(y)
    ELSE IF SignOf(x) > 0 THEN RLe(Square(x), Square(y))
    ELSE RLe(Square(y), Square(x))

\* ------------------------------------------------------ mean, std, rolling
RECURSIVE SeqSum(_)
SeqSum(vs) == IF vs = <<>> THEN Num(0) ELSE RAdd(vs[1], SeqSum(Tail(vs)))

\* The mean of the values, NaN when there is none.
Mean(vs) == RDiv(SeqSum(vs), Num(Len(vs)))

\* The sample variance (ddof = 1), NaN for fewer than two values.
Variance(vs) ==
    IF Len(vs) < 2 THEN NaN
    ELSE RDiv(SeqSum([k \in 1..Len(vs) |->
                        RMul(RSub(vs[k], Mean(vs)), RSub(vs[k], Mean(vs)))]),
              Num(Len(vs) - 1))

\* Series.std()
Std(vs) == RSqrt(Variance(vs))

\* The valid values of column c, in row order: what a reduction with
\* skipna=True works on.
ValidValues(t, c) ==
    LET NotNaN(x) == ~IsNaN(x)
    IN  SelectSeq([i \in 1..Len(t.index) |-> Val(t, c, i)], NotNaN)

\* An expanding window: every row up to row i.
ExpandingWindow(t, c, i, window) == [k \in 1..i |-> Val(t, c, k)]

\* The window of rolling(window) on row i: the rows i - window + 1 .. i.
Window(t, c, i, window) == [k \in 1..window |-> Val(t, c, i - window + k)]

\* rolling(window) has a value on row i when the window holds `window`
\* valid observations (min_periods defaults to the window).
WindowFull(t, c, i, window) ==
    /\ i >= window
    /\ \A k \in 1..window : ~IsNaN(Val(t, c, i - window + k))

RollingMean(t, c, i, window) ==
    IF WindowFull(t, c, i, window) THEN Mean(Window(t, c, i, window)) ELSE NaN

RollingStd(t, c, i, window) ==
    IF WindowFull(t, c, i, window) THEN Std(Window(t, c, i, window)) ELSE NaN

\* The names matched without regard to case.
RollingMetricNamesAnyCase == {"volatility", "return", "sharpe", "Volatility"}

\* The metric names get_rolling_metrics has a branch for.
RollingMetricNames == {"volatility", "return", "sharpe"}

\* rolling(...).std() * np.sqrt(252) on one cell.
RollingVolatility(t, c, i, window) ==
    QMul(RollingStd(t, c, i, window), RSqrt(Num(252)))

\* rolling(...).mean() * 252 on one cell.
RollingReturn(t, c, i, window) == RMul(RollingMean(t, c, i, window), Num(252))

RollingCell(t, c, i, window, metric) ==
    IF metric = "volatility" THEN RollingVolatility(t, c, i, window)
    ELSE IF metric = "return" THEN RollingReturn(t, c, i, window)
    ELSE QDiv(RollingReturn(t, c, i, window), RollingVolatility(t, c, i, window))

\* get_rolling_metrics: the metric is looked at first; rolling() raises
\* ValueError for a negative window.
GetRollingMetrics(self, window, metric) ==
    IF metric \notin RollingMetricNames
    THEN [raised |-> TRUE, error |-> "Unknown metric", table |-> NoTable]
    ELSE IF window < 0
    THEN [raised |-> TRUE, error |-> "window must be an integer 0 or greater",
          table |-> NoTable]
    ELSE LET Cell(c, i) == RollingCell(self.returns, c, i, window, metric)
         IN  [raised |-> FALSE, error |-> "none",
              table |-> MapTable(self.returns, Cell)]

\* ------------------------------------------- annualized return, volatility
\* x ** p for an integer p >= 0.
RECURSIVE IntPow(_, _)
IntPow(x, p) == IF p = 0 THEN Num(1) ELSE RMul(x, IntPow(x, p - 1))

\* The rationals a q-th root is looked for among.
RootCandidates == {Rat(a, b) : a \in 0..12, b \in 1..12}

HasRationalRoot(y, q) == \E x \in RootCandidates : IntPow(x, q) = y

\* base ** exponent has an exact rational value: base 0 or 1, an integral
\* exponent, a negative base (NaN), or a base with a rational root (the
\* exponent p/q is in lowest terms, so base ** p is a q-th power only when
\* base is).
ExactPower(base, exponent) ==
    \/ IsNaN(base) \/ base \in {Num(0), Num(1)}
    \/ base[1] < 0 /\ exponent[2] # 1
    \/ /\ exponent[1] <= MaxExponent
       /\ \/ exponent[2] = 1
          \/ HasRationalRoot(base, exponent[2])

\* base ** exponent for a positive rational exponent, as numpy computes it on
\* floats: NaN for a negative base with a fractional exponent.
RPow(base, exponent) ==
    IF IsNaN(base) THEN NaN
    ELSE IF base \in {Num(0), Num(1)} THEN base
    ELSE IF exponent[2] = 1 THEN IntPow(base, exponent[1])
    ELSE IF base[1] < 0 THEN NaN
    ELSE IntPow(CHOOSE x \in RootCandidates : IntPow(x, exponent[2]) = base,
                exponent[1])

\* (1 + returns).prod(): NaN values skipped.
RECURSIVE ProdOnePlus(_)
ProdOnePlus(vs) ==
    IF vs = <<>> THEN Num(1)
    ELSE RMul(RAdd(Num(1), vs[1]), ProdOnePlus(Tail(vs)))

\* 1 / years of calculate_annualized_return: trading_days / len(returns).
InverseYears(self, trading_days) == Rat(trading_days, Len(self.returns.index))

\* calculate_annualized_return: 1 / years raises ZeroDivisionError on a table
\* without rows.
CalculateAnnualizedReturn(self, trading_days) ==
    IF Len(self.returns.index) = 0
    THEN [raised |-> TRUE, series |-> <<>>]
    ELSE [raised |-> FALSE,
          series |-> [c \in Range(self.returns.columns) |->
                        RSub(RPow(ProdOnePlus(ValidValues(self.returns, c)),
                                  InverseYears(self, trading_days)),
                             Num(1))]]

\* calculate_annualized_volatility
CalculateAnnualizedVolatility(self, trading_days) ==
    [c \in Range(self.returns.columns) |->
        QMul(Std(ValidValues(self.returns, c)), RSqrt(Num(trading_days)))]

\* calculate_sharpe_ratio
CalculateSharpeRatio(self, risk_free_rate, trading_days) ==
    LET ann_return == CalculateAnnualizedReturn(self, trading_days)
        ann_vol == CalculateAnnualizedVolatility(self, trading_days)
    IN  IF ann_return.raised THEN [raised |-> TRUE, series |-> <<>>]
        ELSE [raised |-> FALSE,
              series |-> [c \in Range(self.returns.columns) |->
                            QDiv(RSub(ann_return.series[c], risk_free_rate),
                                 ann_vol[c])]]

\* The 'Sharpe Ratio' column of get_performance_summary: the 'Total Return'
\* entry is evaluated first and raises on a table without rows.
SummarySharpeRatio(self, risk_free_rate, trading_days) ==
    IF GetPerformanceSummary(self).raised THEN [raised |-> TRUE, series |-> <<>>]
    ELSE CalculateSharpeRatio(self, risk_free_rate, trading_days)

\* self.returns[self.returns < 0] of one column: a new table, NaN wherever
\* the return is not negative; its valid values.
DownsideReturns(t, c) ==
    LET Negative(x) == RLt(x, Num(0))
    IN  SelectSeq(ValidValues(t, c), Negative)

\* calculate_sortino_ratio
CalculateSortinoRatio(self, risk_free_rate, trading_days) ==
    LET ann_return == CalculateAnnualizedReturn(self, trading_days)
    IN  IF ann_return.raised THEN [raised |-> TRUE, series |-> <<>>]
        ELSE [raised |-> FALSE,
              series |-> [c \in Range(self.returns.columns) |->
                            QDiv(RSub(ann_return.series[c], risk_free_rate),
                                 QMul(Std(DownsideReturns(self.returns, c)),
                                      RSqrt(Num(trading_days))))]]

\* --------------------------------------------------------- GeographyAnalyzer
\* GeographyAnalyzer.__init__
GeographyAnalyzer(prices, returns) == [returns |-> returns, prices |-> prices]

\* DataFrame.iloc[0]: the first row, IndexError on a table without rows.
FirstRow(t) == [c \in Range(t.columns) |-> Val(t, c, 1)]

\* calculate_relative_performance: every row divided by the first row.
CalculateRelativePerformance(self) ==
    IF Len(self.prices.index) = 0 THEN [raised |-> TRUE, table |-> NoTable]
    ELSE LET Cell(c, i) ==
                 RMul(RDiv(Val(self.prices, c, i), FirstRow(self.prices)[c]), Num(100))
         IN  [raised |-> FALSE, table |-> MapTable(self.prices, Cell)]

\* Series.sum() of a row: the valid values of the columns added up.
RowSum(columns, row) ==
    LET NotNaN(x) == ~IsNaN(x)
    IN  SeqSum(SelectSeq([k \in 1..Len(columns) |-> row[columns[k]]], NotNaN))

\* calculate_regional_contribution on the first row instead of the last.
ContributionOfFirstRow(self) ==
    IF Len(self.prices.index) = 0 THEN [raised |-> TRUE, series |-> <<>>]
    ELSE [raised |-> FALSE,
          series |-> [c \in Range(self.prices.columns) |->
                        RMul(RDiv(FirstRow(self.prices)[c],
                                  RowSum(self.prices.columns, FirstRow(self.prices))),
                             Num(100))]]

\* calculate_regional_contribution
CalculateRegionalContribution(self) ==
    IF Len(self.prices.index) = 0 THEN [raised |-> TRUE, series |-> <<>>]
    ELSE LET final_values == LastRow(self.prices)
             total_value == RowSum(self.prices.columns, final_values)
         IN  [raised |-> FALSE,
              series |-> [c \in Range(self.prices.columns) |->
                            RMul(RDiv(final_values[c], total_value), Num(100))]]

\* (prices.iloc[-1] / prices.iloc[0] - 1) * 100
TotalReturns(prices) ==
    [c \in Range(prices.columns) |->
        RMul(RSub(RDiv(LastRow(prices)[c], FirstRow(prices)[c]), Num(1)), Num(100))]

\* Series.idxmax(): the first label, in column order, whose value no valid
\* value exceeds.
IdxMax(columns, series) ==
    columns[CHOOSE k \in 1..Len(columns) :
               /\ ~IsNaN(series[columns[k]])
               /\ \A j \in 1..Len(columns) :
                     IsNaN(series[columns[j]]) \/ RLe(series[columns[j]], series[columns[k]])
               /\ \A j \in 1..(k - 1) : series[columns[j]] # series[columns[k]]]

\* Series.idxmin()
IdxMin(columns, series) ==
    columns[CHOOSE k \in 1..Len(columns) :
               /\ ~IsNaN(series[columns[k]])
               /\ \A j \in 1..Len(columns) :
                     IsNaN(series[columns[j]]) \/ RLe(series[columns[k]], series[columns[j]])
               /\ \A j \in 1..(k - 1) : series[columns[j]] # series[columns[k]]]

NoPerformers == [best |-> "", best_return |-> NaN, worst |-> "", worst_return |-> NaN]

\* get_best_worst_performers: iloc raises on a table without rows; idxmax of
\* a Series without a valid value raises, or returns NaN and the lookup by
\* that label raises.
GetBestWorstPerformers(self) ==
    IF Len(self.prices.index) = 0 THEN [raised |-> TRUE, result |-> NoPerformers]
    ELSE LET total_returns == TotalReturns(self.prices)
             columns == self.prices.columns
         IN  IF \A c \in Range(columns) : IsNaN(total_returns[c])
             THEN [raised |-> TRUE, result |-> NoPerformers]
             ELSE [raised |-> FALSE,
                   result |-> [best |-> IdxMax(columns, total_returns),
                               best_return |-> total_returns[IdxMax(columns, total_returns)],
                               worst |-> IdxMin(columns, total_returns),
                               worst_return |-> total_returns[IdxMin(columns, total_returns)]]]

\* analyze_drawdown_by_region: the lowest drawdown of every column of the
\* price table the analyzer was given.
AnalyzeDrawdownByRegion(self) == TableMin(Drawdowns(self.prices))

\* get_geographic_summary: the 'Total Return (%)' and 'Max Drawdown (%)'
\* columns; raised is the IndexError of iloc[-1] on a price table without
\* rows, or the ZeroDivisionError of 1 / n_years on a return table without
\* rows.
GetGeographicSummary(self) ==
    IF Len(self.prices.index) = 0 \/ Len(self.returns.index) = 0
    THEN [raised |-> TRUE, total_return |-> <<>>, max_drawdown |-> <<>>]
    ELSE [raised       |-> FALSE,
          total_return |-> TotalReturns(self.prices),
          max_drawdown |-> ScaleSeries(AnalyzeDrawdownByRegion(self), Num(100))]

\* calculate_regional_volatility
CalculateRegionalVolatility(self, annualization_factor) ==
    [c \in Range(self.returns.columns) |->
        QMul(Std(ValidValues(self.returns, c)), RSqrt(Num(annualization_factor)))]

\* 1 + total_return of calculate_risk_adjusted_returns: last / first price.
GrowthFactor(self, c) == RDiv(LastRow(self.prices)[c], FirstRow(self.prices)[c])

\* calculate_risk_adjusted_returns: iloc[-1] raises IndexError on prices
\* without rows, 1 / n_years ZeroDivisionError on returns without rows.
CalculateRiskAdjustedReturns(self, risk_free_rate, trading_days) ==
    IF Len(self.prices.index) = 0 \/ Len(self.returns.index) = 0
    THEN [raised |-> TRUE, table |-> <<>>]
    ELSE LET annualized_return(c) ==
                 RSub(RPow(GrowthFactor(self, c), InverseYears(self, trading_days)),
                      Num(1))
             annualized_vol(c) ==
                 QMul(Std(ValidValues(self.returns, c)), RSqrt(Num(trading_days)))
         IN  [raised |-> FALSE,
              table |-> [c \in Range(self.prices.columns) |->
                           [annualized_return |-> annualized_return(c),
                            annualized_volatility |-> annualized_vol(c),
                            sharpe_ratio |-> QDiv(RSub(annualized_return(c),
                                                       risk_free_rate),
                                                  annualized_vol(c)),
                            return_risk |-> QDiv(annualized_return(c),
                                                 annualized_vol(c))]]]

\* (self.returns * weights).sum(axis=1) on row i: NaN values skipped.
PortfolioReturn(t, i) ==
    LET NotNaN(x) == ~IsNaN(x)
    IN  SeqSum(SelectSeq([k \in 1..Len(t.columns) |->
                            RMul(Val(t, t.columns[k], i), Rat(1, Len(t.columns)))],
                         NotNaN))

\* calculate_diversification_ratio: 1.0 / len(columns) raises
\* ZeroDivisionError on a table without columns. The ratio is
\* sum(weighted_vols) / portfolio_vol; a sum of square roots is kept as
\* its terms.
CalculateDiversificationRatio(self) ==
    IF Len(self.returns.columns) = 0
    THEN [raised |-> TRUE, weighted_vols |-> <<>>, portfolio_vol |-> NaN]
    ELSE [raised |-> FALSE,
          weighted_vols |-> [k \in 1..Len(self.returns.columns) |->
                               QMul(Rat(1, Len(self.returns.columns)),
                                    Std(ValidValues(self.returns,
                                                    self.returns.columns[k])))],
          portfolio_vol |-> Std([i \in 1..Len(self.returns.index) |->
                                   PortfolioReturn(self.returns, i)])]

\* ------------------------------------------------------------ DataFrame.corr
\* The rows on which both columns have a value.
PairedRows(t, a, b) ==
    LET Both(i) == ~IsNaN(Val(t, a, i)) /\ ~IsNaN(Val(t, b, i))
    IN  SelectSeq([i \in 1..Len(t.index) |-> i], Both)

\* The sum over the paired rows of (x - mean x) * (y - mean y).
CoMoment(t, a, b, x, y) ==
    LET rows == PairedRows(t, a, b)
        xs == [k \in 1..Len(rows) |-> Val(t, x, rows[k])]
        ys == [k \in 1..Len(rows) |-> Val(t, y, rows[k])]
    IN  SeqSum([k \in 1..Len(rows) |->
                  RMul(RSub(xs[k], Mean(xs)), RSub(ys[k], Mean(ys)))])

\* The sample covariance of two columns, not divided by the deviations.
Covariance(t, a, b) ==
    IF Len(PairedRows(t, a, b)) < 2 THEN NaN
    ELSE RDiv(CoMoment(t, a, b, a, b), Num(Len(PairedRows(t, a, b)) - 1))

\* The Pearson correlation of two columns: NaN without a paired row and when
\* the divisor is zero, which a constant column makes it.
Corr(t, a, b) ==
    IF Len(PairedRows(t, a, b)) = 0 THEN NaN
    ELSE LET divisor == RSqrt(RMul(CoMoment(t, a, b, a, a), CoMoment(t, a, b, b, b)))
         IN  IF divisor = Num(0) THEN NaN
             ELSE QDiv(CoMoment(t, a, b, a, b), divisor)

\* DataFrame.corr()
CorrMatrix(t) ==
    [a \in Range(t.columns) |-> [b \in Range(t.columns) |-> Corr(t, a, b)]]

\* PerformanceAnalyzer.calculate_correlation_matrix
CalculateCorrelationMatrix(self) == CorrMatrix(self.returns)

\* GeographyAnalyzer.calculate_regional_correlations
CalculateRegionalCorrelations(self) == CorrMatrix(self.returns)

\* ------------------------------------------------------------------- Config
\* The attributes class Config defines, with the values the pipeline reads.
Config ==
    [FACTOR_TICKERS    |-> << <<"Value", "VLUE">>, <<"Momentum", "MTUM">>,
                              <<"Quality", "QUAL">>, <<"Low Volatility", "USMV">> >>,
     GEOGRAPHY_TICKERS |-> << <<"US Market", "SPY">>, <<"Europe", "EXSA.DE">>,
                              <<"Emerging Markets", "EEM">> >>,
     CURRENCY_PAIR     |-> "EURUSD=X",
     EUR_TICKERS       |-> <<"EXSA.DE">>,
     START_DATE        |-> [format |-> "iso", day |-> 1],
     END_DATE          |-> [format |-> "iso", day |-> MaxDate]]

HasAttr(obj, attr) == attr \in DOMAIN obj

ConfigTickers ==
    {Config.FACTOR_TICKERS[i][2] : i \in 1..Len(Config.FACTOR_TICKERS)}
    \cup {Config.GEOGRAPHY_TICKERS[i][2] : i \in 1..Len(Config.GEOGRAPHY_TICKERS)}

\* ------------------------------------------------- FactorInvestingAnalyzer
\* What the data source answers for the entries of tickers_dict, by name.
AnswersFor(tickers_dict, market) ==
    [n \in {tickers_dict[i][1] : i \in 1..Len(tickers_dict)} |->
        market[(CHOOSE e \in Range(tickers_dict) : e[1] = n)[2]]]

\* The loader after a load_tickers call that returned r.
After(self, r) ==
    [self EXCEPT !.usd_eur_rate = r.usd_eur_rate, !.np_random = r.np_random]

LoadFailed(loader) ==
    [raised |-> TRUE, loader |-> loader,
     factor_prices |-> NoTable, factor_returns |-> NoTable,
     geography_prices |-> NoTable, geography_returns |-> NoTable]

\* load_data, its end: both tables and their returns stored.
LoadedBoth(loader, fill, factors, geo) ==
    IF geo.raised THEN LoadFailed(After(loader, geo))
    ELSE [raised |-> FALSE, loader |-> After(loader, geo),
          factor_prices |-> factors.table,
          factor_returns |-> GetReturns(factors.table, fill),
          geography_prices |-> geo.table,
          geography_returns |-> GetReturns(geo.table, fill)]

\* load_data, after the factor tickers were loaded: the geography tickers,
\* loaded by the same loader.
LoadGeographyData(loader, usd_tickers, market, fill, factors) ==
    IF factors.raised THEN LoadFailed(loader)
    ELSE LoadedBoth(loader, fill, factors,
                    LoadTickers(loader, Config.GEOGRAPHY_TICKERS, usd_tickers,
                                market[Config.CURRENCY_PAIR],
                                AnswersFor(Config.GEOGRAPHY_TICKERS, market)))

LoadFactorData(self, usd_tickers, market, fill, factors) ==
    LoadGeographyData(After(self, factors), usd_tickers, market, fill, factors)

\* load_data: the keyword arguments are evaluated before load_tickers is
\* called, so reading an attribute Config does not define raises
\* AttributeError before any fetch.
LoadData(self, config_, market, fill) ==
    IF ~HasAttr(config_, "USD_TICKERS") THEN LoadFailed(self)
    ELSE LoadFactorData(self, config_.USD_TICKERS, market, fill,
                        LoadTickers(self, Config.FACTOR_TICKERS, config_.USD_TICKERS,
                                    market[Config.CURRENCY_PAIR],
                                    AnswersFor(Config.FACTOR_TICKERS, market)))

\* analyze_factors raises when get_performance_summary does.
AnalyzeFactorsRaises(factor_returns) ==
    GetPerformanceSummary(PerformanceAnalyzer(factor_returns)).raised

\* analyze_geography raises when get_geographic_summary reads iloc[-1] of a
\* price table without rows, when calculate_risk_adjusted_returns divides by
\* the zero years of a return table without rows, and when
\* get_best_worst_performers does.
AnalyzeGeographyRaises(geography_prices, geography_returns) ==
    \/ Len(geography_prices.index) = 0
    \/ Len(geography_returns.index) = 0
    \/ GetBestWorstPerformers(GeographyAnalyzer(geography_prices, geography_returns)).raised

\* The result of run: the stages started, in order, whether 'ANALYSIS
\* COMPLETE' was printed, the exit status (sys.exit(1) in the except clause)
\* and the loader.
Ran(stages, complete, data) ==
    [stages |-> stages, complete |-> complete,
     exit_status |-> IF complete THEN 0 ELSE 1, loader |-> data.loader]

\* RunStages with every stage in a try of its own: a stage that raised does
\* not keep the later ones from starting.
RunStagesKeepGoing(data) ==
    Ran(<<"load_data", "analyze_factors", "analyze_geography">>,
        /\ ~data.raised
        /\ ~AnalyzeFactorsRaises(data.factor_returns)
        /\ ~AnalyzeGeographyRaises(data.geography_prices, data.geography_returns),
        data)

\* run, after load_data returned or raised.
RunStages(data) ==
    IF data.raised THEN Ran(<<"load_data">>, FALSE, data)
    ELSE IF AnalyzeFactorsRaises(data.factor_returns)
    THEN Ran(<<"load_data", "analyze_factors">>, FALSE, data)
    ELSE Ran(<<"load_data", "analyze_factors", "analyze_geography">>,
             ~AnalyzeGeographyRaises(data.geography_prices, data.geography_returns),
             data)

\* run
Run(self, config_, market, fill) == RunStages(LoadData(self, config_, market, fill))

\* -------------------------------------------------------------------- state
VARIABLES
    hash_salt,      \* the process's string-hash salt
    np_random,      \* the state of numpy's global random generator
    start_date,     \* FactorDataLoader.start_date (a day number)
    end_date,       \* FactorDataLoader.end_date
    usd_eur_rate,   \* FactorDataLoader.usd_eur_rate
    call,           \* the arguments and market answers of the last load_tickers call
    loaded,         \* what that call returned or raised
    returns,        \* what get_returns returned for the loaded table
    conv,           \* the argument and result of _convert_usd_to_eur
    analyzer,       \* a PerformanceAnalyzer: its returns and prices
    metric,         \* the last result a PerformanceAnalyzer method returned
    pc,             \* where the program is: cli, ready, finished, crashed
    args,           \* the command line's --start-date and --end-date
    market,         \* what the data source answers per ticker during a run
    outcome,        \* what run() did
    run_no,         \* the number of the current process
    mock_log,       \* the synthetic paths generated, per process and name
    config,         \* FactorInvestingAnalyzer.config: the attributes it defines
    first_result    \* the first result an analyzer returned, where a caller keeps it

vars == <<hash_salt, np_random, start_date, end_date, usd_eur_rate, call, loaded,
          returns, conv, analyzer, metric, pc, args, market, outcome, run_no, mock_log,
          config, first_result>>

loaderVars == <<hash_salt, np_random, start_date, end_date, usd_eur_rate>>

\* The loader object and the process state its methods read.
Self ==
    [hash_salt |-> hash_salt, np_random |-> np_random, start_date |-> start_date,
     end_date |-> end_date, usd_eur_rate |-> usd_eur_rate]

\* Values of the variables a specification does not use.
NoCall == [made |-> FALSE, tickers_dict |-> <<>>, usd_tickers |-> <<>>,
           fx |-> NoRows("error"), answers |-> <<>>, rate_before |-> NoRate]

NotLoaded == [raised |-> FALSE, table |-> NoTable]

NoReturns == [made |-> FALSE, fill |-> "pad", table |-> NoTable]

NoConv == [usd_prices |-> EmptySeries, done |-> FALSE, result |-> EmptySeries]

NoMetric == [op |-> "none", table |-> NoTable, series |-> <<>>, raised |-> FALSE]

\* No caller keeps the first result to compare later ones with.
NotCompared == [op |-> "not compared", table |-> NoTable, series |-> <<>>, raised |-> FALSE]

NoOutcome == [stages |-> <<>>, complete |-> FALSE, exit_status |-> 0]

NoneArg == [given |-> FALSE, format |-> "dmy", day |-> 0]

NoArgs == [start_date |-> NoneArg, end_date |-> NoneArg]

IdleCall == call = NoCall /\ loaded = NotLoaded /\ returns = NoReturns

IdleConv == conv = NoConv

IdleAnalysis ==
    /\ analyzer = PerformanceAnalyzer(NoTable)
    /\ metric = NoMetric /\ first_result = NotCompared

IdleRun ==
    /\ pc = "idle" /\ args = NoArgs /\ market = <<>> /\ outcome = NoOutcome
    /\ config = Config

NoLog == [r \in 1..MaxRuns |-> {}]

IdleMock == run_no = 1 /\ mock_log = NoLog

\* FactorDataLoader.__init__ on the day numbers start and end.
NewLoader(start, end) ==
    /\ start_date = start
    /\ end_date = end
    /\ usd_eur_rate = NoRate

\* ------------------------------------------------ specification: the loader
\* tickers_dict: display name -> ticker, in insertion order.
Entries == {<<"US Market", "SPY">>, <<"Europe", "EXSA.DE">>}

TickersDicts ==
    {<<>>} \cup {<<e>> : e \in Entries}
    \cup {p \in Entries \X Entries : p[1] # p[2]}

UsdTickerLists == {<<>>, Config.EUR_TICKERS}

Names(tickers_dict) == {tickers_dict[i][1] : i \in 1..Len(tickers_dict)}

TickerFor(tickers_dict, name) == (CHOOSE e \in Range(tickers_dict) : e[1] = name)[2]

Init ==
    /\ hash_salt \in 0..MaxSalt
    /\ np_random = 0
    /\ NewLoader(1, MaxDate)
    /\ IdleCall /\ IdleConv /\ IdleAnalysis /\ IdleRun /\ IdleMock

\* loader.load_tickers(tickers_dict, usd_tickers), the data source answering
\* fx for the currency pair and answers[name] for each entry.
LoadTickersWith(tickers_dict, usd_tickers, fx, answers) ==
    \E r \in {LoadTickers(Self, tickers_dict, usd_tickers, fx, answers)} :
        /\ call' = [made |-> TRUE, tickers_dict |-> tickers_dict,
                    usd_tickers |-> usd_tickers, fx |-> fx, answers |-> answers,
                    rate_before |-> usd_eur_rate]
        /\ loaded' = [raised |-> r.raised, table |-> r.table]
        /\ usd_eur_rate' = r.usd_eur_rate
        /\ np_random' = r.np_random
        /\ returns' = NoReturns
        /\ UNCHANGED <<hash_salt, start_date, end_date, conv, analyzer, metric,
                       pc, args, market, outcome, run_no, mock_log, config, first_result>>

\* The first load_tickers call on a new loader.
LoadTickersCall ==
    /\ ~call.made
    /\ \E tickers_dict \in TickersDicts, usd_tickers \in UsdTickerLists, fx \in CurrencyAnswers :
         \E answers \in [Names(tickers_dict) -> TickerAnswers] :
            LoadTickersWith(tickers_dict, usd_tickers, fx, answers)

\* loader.get_returns(prices) on the table load_tickers returned.
GetReturnsCall ==
    /\ call.made /\ ~loaded.raised /\ ~returns.made
    /\ \E fill \in PandasFills :
         returns' = [made |-> TRUE, fill |-> fill, table |-> GetReturns(loaded.table, fill)]
    /\ UNCHANGED <<loaderVars, call, loaded, conv, analyzer, metric,
                   pc, args, market, outcome, run_no, mock_log, config, first_result>>

Next == LoadTickersCall \/ GetReturnsCall

Spec == Init /\ [][Next]_vars

\* ------------------------------- specification: one loader, called repeatedly
\* load_tickers called again and again on the same loader, as load_data does,
\* for the one entry of Config.GEOGRAPHY_TICKERS that is flagged.
ReloadAnswers == {NoRows("error")} \cup {Rows("close", w[1], w[2]) : w \in Windows}

ReloadCall ==
    \E usd_tickers \in UsdTickerLists, fx \in CurrencyAnswers, answer \in ReloadAnswers :
        LoadTickersWith(<< <<"Europe", "EXSA.DE">> >>, usd_tickers, fx,
                        [n \in {"Europe"} |-> answer])

NextReload == ReloadCall

SpecReload == Init /\ [][NextReload]_vars

\* ------------------------------------ specification: _convert_usd_to_eur
RateSeries(S) == [d \in S |-> RDiv(Num(1), ClosePrice("EURUSD=X", d))]

RateInputs == {NoRate} \cup {[some |-> TRUE, series |-> RateSeries(S)] : S \in SUBSET Dates}

PriceInputs == {[d \in S |-> ClosePrice("SPY", d)] : S \in (SUBSET Dates) \ {{}}}

InitConvert ==
    /\ hash_salt = 0 /\ np_random = 0
    /\ start_date = 1 /\ end_date = MaxDate
    /\ usd_eur_rate \in RateInputs
    /\ conv \in {[usd_prices |-> p, done |-> FALSE, result |-> EmptySeries] : p \in PriceInputs}
    /\ IdleCall /\ IdleAnalysis /\ IdleRun /\ IdleMock

ConvertCall ==
    /\ ~conv.done
    /\ conv' = [conv EXCEPT !.done = TRUE,
                            !.result = ConvertUsdToEur(usd_eur_rate, conv.usd_prices)]
    /\ UNCHANGED <<loaderVars, call, loaded, returns, analyzer, metric,
                   pc, args, market, outcome, run_no, mock_log, config, first_result>>

NextConvert == ConvertCall

SpecConvert == InitConvert /\ [][NextConvert]_vars

\* ------------------------------------- specification: _generate_mock_data
MockNames == {"US Market", "Europe"}

DateRanges == {r \in Dates \X Dates : r[1] <= r[2]}

InitMock ==
    /\ hash_salt \in 0..MaxSalt
    /\ np_random \in 0..(SeedSpace - 1)
    /\ \E r \in DateRanges : NewLoader(r[1], r[2])
    /\ run_no = 1 /\ mock_log = NoLog
    /\ IdleCall /\ IdleConv /\ IdleAnalysis /\ IdleRun

\* loader._generate_mock_data(name) in the current process.
GenerateMockCall ==
    \E name \in MockNames :
      \E g \in {GenerateMockData(name, hash_salt, start_date, end_date)} :
        /\ np_random' = g.np_random
        /\ mock_log' = [mock_log EXCEPT ![run_no] =
                          @ \cup {[name |-> name, start |-> start_date,
                                   end |-> end_date, series |-> g.series]}]
        /\ UNCHANGED <<hash_salt, start_date, end_date, usd_eur_rate, call, loaded,
                       returns, conv, analyzer, metric, pc, args, market, outcome, run_no, config, first_result>>

\* The program ends and is started again: a new process with its own hash
\* salt and generator state, and a new loader.
NewProcess ==
    /\ run_no < MaxRuns
    /\ run_no' = run_no + 1
    /\ hash_salt' \in 0..MaxSalt
    /\ np_random' \in 0..(SeedSpace - 1)
    /\ \E r \in DateRanges : start_date' = r[1] /\ end_date' = r[2]
    /\ usd_eur_rate' = NoRate
    /\ UNCHANGED <<call, loaded, returns, conv, analyzer, metric, pc, args, market,
                   outcome, mock_log, config, first_result>>

NextMock == GenerateMockCall \/ NewProcess

SpecMock == InitMock /\ [][NextMock]_vars

\* ------------------------------------ specification: PerformanceAnalyzer
\* A one-asset table over the dates 1..Len(values).
OneAssetTable(values) ==
    [columns |-> <<"Asset">>,
     index   |-> [i \in 1..Len(values) |-> i],
     data    |-> [c \in {"Asset"} |-> [d \in 1..Len(values) |-> values[d]]]]

PriceVals == {Num(95), Num(100), Num(110), Num(120)}

PricePaths == UNION {[1..n -> PriceVals] : n \in 1..MaxRows}

ReturnVals == {Num(-2), Rat(-1, 2), Num(0), Rat(1, 2)}

ReturnPaths == UNION {[1..n -> ReturnVals] : n \in 1..MaxLen}

ScenarioReturns == <<Rat(1, 100), Rat(-2, 100), Rat(3, 100)>>

ScenarioPrices == <<Num(100), Num(110), Num(95), Num(120)>>

\* The return tables handed to PerformanceAnalyzer: get_returns of a price
\* table, or a table of returns as such.
AnalysisInputs ==
    {GetReturns(OneAssetTable(p), fill) : p \in PricePaths, fill \in PandasFills}
    \cup {OneAssetTable(r) : r \in ReturnPaths \cup {ScenarioReturns}}

InitAnalysis ==
    /\ hash_salt = 0 /\ np_random = 0
    /\ NewLoader(1, MaxDate)
    /\ analyzer \in {PerformanceAnalyzer(t) : t \in AnalysisInputs}
    /\ metric = NoMetric /\ first_result = NotCompared
    /\ IdleCall /\ IdleConv /\ IdleRun /\ IdleMock

\* A method that writes the table it returns over self.prices.
ReturnedInPlace(op, table, series, raised) ==
    /\ metric' = [op |-> op, table |-> table, series |-> series, raised |-> raised]
    /\ first_result' = IF first_result = NoMetric
                       THEN [op |-> op, table |-> table, series |-> series,
                             raised |-> raised]
                       ELSE first_result
    /\ analyzer' = IF table = NoTable THEN analyzer
                   ELSE [analyzer EXCEPT !.prices = table]
    /\ UNCHANGED <<loaderVars, call, loaded, returns, conv,
                   pc, args, market, outcome, run_no, mock_log, config>>

\* A method returns (or raises): the result is the caller's, the analyzer's
\* tables are the ones it was built with.
Returned(op, table, series, raised) ==
    /\ metric' = [op |-> op, table |-> table, series |-> series, raised |-> raised]
    /\ first_result' = IF first_result = NoMetric
                       THEN [op |-> op, table |-> table, series |-> series,
                             raised |-> raised]
                       ELSE first_result
    /\ UNCHANGED <<loaderVars, call, loaded, returns, conv, analyzer,
                   pc, args, market, outcome, run_no, mock_log, config>>

CalculateCumulativeReturnsCall ==
    Returned("calculate_cumulative_returns", CalculateCumulativeReturns(analyzer), <<>>, FALSE)

CalculateDrawdownsCall ==
    Returned("calculate_drawdowns", CalculateDrawdowns(analyzer), <<>>, FALSE)

CalculateMaxDrawdownCall ==
    Returned("calculate_max_drawdown", NoTable, CalculateMaxDrawdown(analyzer), FALSE)

GetPerformanceSummaryCall ==
    \E summary \in {GetPerformanceSummary(analyzer)} :
        Returned("get_performance_summary", NoTable,
                 [total_return |-> summary.total_return,
                  max_drawdown |-> summary.max_drawdown], summary.raised)

NextAnalysis ==
    \/ CalculateCumulativeReturnsCall
    \/ CalculateDrawdownsCall
    \/ CalculateMaxDrawdownCall
    \/ GetPerformanceSummaryCall

SpecAnalysis == InitAnalysis /\ [][NextAnalysis]_vars

\* ------------------------------------ specification: get_rolling_metrics
\* The arguments of get_rolling_metrics: a name it knows or not, a window
\* that is negative, shorter than, as long as or longer than the table.
MetricArgs == RollingMetricNames \cup {"unknown", "Volatility", "none"}

WindowArgs == {-1} \cup 1..(MaxLen + 1)

GetRollingMetricsCall ==
    \E window \in WindowArgs, name \in MetricArgs :
        \E r \in {GetRollingMetrics(analyzer, window, name)} :
            Returned("get_rolling_metrics", r.table,
                     [name |-> name, window |-> window, error |-> r.error], r.raised)

\* An analyzer over a table of returns with one asset.
InitRolling ==
    /\ hash_salt = 0 /\ np_random = 0
    /\ NewLoader(1, MaxDate)
    /\ analyzer \in {PerformanceAnalyzer(OneAssetTable(r)) :
                        r \in ReturnPaths \cup {ScenarioReturns}}
    /\ metric = NoMetric /\ first_result = NotCompared
    /\ IdleCall /\ IdleConv /\ IdleRun /\ IdleMock

NextRolling == GetRollingMetricsCall

SpecRolling == InitRolling /\ [][NextRolling]_vars

\* --------------------------------- specification: calculate_sharpe_ratio
\* Return tables of one asset: every return the same (no volatility), or not.
ConstantPaths == {[i \in 1..n |-> r] : n \in 2..MaxLen, r \in ReturnVals \cup {Rat(1, 100)}}

RiskFreeRates == {Rat(2, 100), Num(0), Rat(1, 2)}

TradingDays == {1, 2, 252}

InitSharpe ==
    /\ hash_salt = 0 /\ np_random = 0
    /\ NewLoader(1, MaxDate)
    /\ analyzer \in {PerformanceAnalyzer(OneAssetTable(r)) :
                        r \in ReturnPaths \cup ConstantPaths \cup {<<>>}}
    /\ metric = NoMetric /\ first_result = NotCompared
    /\ IdleCall /\ IdleConv /\ IdleRun /\ IdleMock

\* The annualized return of every asset is an exact rational.
Annualizable(self, trading_days) ==
    \/ Len(self.returns.index) = 0
    \/ {c \in Range(self.returns.columns) :
           ~ExactPower(ProdOnePlus(ValidValues(self.returns, c)),
                       InverseYears(self, trading_days))} = {}

CalculateSharpeRatioCall ==
    \E risk_free_rate \in RiskFreeRates, trading_days \in TradingDays :
        /\ Annualizable(analyzer, trading_days)
        /\ \E r \in {CalculateSharpeRatio(analyzer, risk_free_rate, trading_days)} :
              Returned("calculate_sharpe_ratio", NoTable,
                       [risk_free_rate |-> risk_free_rate,
                        trading_days |-> trading_days, sharpe |-> r.series], r.raised)

SummarySharpeRatioCall ==
    \E risk_free_rate \in RiskFreeRates, trading_days \in TradingDays :
        /\ Annualizable(analyzer, trading_days)
        /\ \E r \in {SummarySharpeRatio(analyzer, risk_free_rate, trading_days)} :
              Returned("get_performance_summary", NoTable,
                       [risk_free_rate |-> risk_free_rate,
                        trading_days |-> trading_days, sharpe |-> r.series], r.raised)

NextSharpe == CalculateSharpeRatioCall \/ SummarySharpeRatioCall

SpecSharpe == InitSharpe /\ [][NextSharpe]_vars

\* -------------------------------------- specification: GeographyAnalyzer
\* The price tables load_tickers returns for two regions, each fetched over
\* some window of the period or replaced by synthetic data.
GeographyAnswers == {NoRows("error")} \cup {Rows("close", w[1], w[2]) : w \in Windows}

GeographyDict == << <<"US Market", "SPY">>, <<"Europe", "EXSA.DE">> >>

GeographyTables ==
    {LoadTickers([hash_salt |-> 0, np_random |-> 0, start_date |-> 1,
                  end_date |-> MaxDate, usd_eur_rate |-> NoRate],
                 GeographyDict, <<>>, NoRows("error"),
                 [n \in {"US Market", "Europe"} |->
                     IF n = "US Market" THEN us ELSE europe]).table :
        us \in GeographyAnswers, europe \in GeographyAnswers}

InitGeography ==
    /\ hash_salt = 0 /\ np_random = 0
    /\ NewLoader(1, MaxDate)
    /\ analyzer \in {GeographyAnalyzer(P, GetReturns(P, fill)) :
                        P \in GeographyTables, fill \in PandasFills}
    /\ metric = NoMetric /\ first_result = NotCompared
    /\ IdleCall /\ IdleConv /\ IdleRun /\ IdleMock

CalculateRelativePerformanceCall ==
    \E r \in {CalculateRelativePerformance(analyzer)} :
        Returned("calculate_relative_performance", r.table, <<>>, r.raised)

CalculateRegionalContributionCall ==
    \E r \in {CalculateRegionalContribution(analyzer)} :
        Returned("calculate_regional_contribution", NoTable, r.series, r.raised)

GetBestWorstPerformersCall ==
    \E r \in {GetBestWorstPerformers(analyzer)} :
        Returned("get_best_worst_performers", NoTable, r.result, r.raised)

NextGeography ==
    \/ CalculateRelativePerformanceCall
    \/ CalculateRegionalContributionCall
    \/ GetBestWorstPerformersCall

SpecGeography == InitGeography /\ [][NextGeography]_vars

\* ------------------------------------------- specification: correlations
\* Return tables of two assets over the dates 1..n.
CorrVals == {Rat(-1, 2), Num(0), Rat(1, 2)}

TwoAssetTable(us, europe) ==
    [columns |-> <<"US Market", "Europe">>,
     index   |-> [i \in 1..Len(us) |-> i],
     data    |-> [c \in {"US Market", "Europe"} |->
                    [d \in 1..Len(us) |-> IF c = "US Market" THEN us[d] ELSE europe[d]]]]

CorrelationInputs ==
    UNION {{TwoAssetTable(us, europe) : us \in [1..n -> CorrVals],
                                        europe \in [1..n -> CorrVals \ {Rat(-1, 2)}]} :
              n \in 1..MaxLen}

InitCorrelation ==
    /\ hash_salt = 0 /\ np_random = 0
    /\ NewLoader(1, MaxDate)
    /\ analyzer \in {PerformanceAnalyzer(t) : t \in CorrelationInputs}
    /\ metric = NoMetric /\ first_result = NotCompared
    /\ IdleCall /\ IdleConv /\ IdleRun /\ IdleMock

CalculateCorrelationMatrixCall ==
    Returned("calculate_correlation_matrix", NoTable,
             CalculateCorrelationMatrix(analyzer), FALSE)

CalculateRegionalCorrelationsCall ==
    Returned("calculate_regional_correlations", NoTable,
             CalculateRegionalCorrelations(analyzer), FALSE)

NextCorrelation == CalculateCorrelationMatrixCall \/ CalculateRegionalCorrelationsCall

SpecCorrelation == InitCorrelation /\ [][NextCorrelation]_vars

\* ------------------- specification: both analyzers over one price table
\* A price table, its get_returns, the PerformanceAnalyzer of the returns
\* and the GeographyAnalyzer of both, as analyze_factors and
\* analyze_geography build them.
CompareTables == {OneAssetTable(p) : p \in PricePaths} \cup GeographyTables

InitCompare ==
    /\ hash_salt = 0 /\ np_random = 0
    /\ NewLoader(1, MaxDate)
    /\ call = NoCall
    /\ \E P \in CompareTables, fill \in PandasFills :
         /\ loaded = [raised |-> FALSE, table |-> P]
         /\ returns = [made |-> TRUE, fill |-> fill, table |-> GetReturns(P, fill)]
         /\ analyzer = PerformanceAnalyzer(GetReturns(P, fill))
    /\ metric = NoMetric /\ first_result = NotCompared
    /\ IdleConv /\ IdleRun /\ IdleMock

\* GeographyAnalyzer(prices, returns) over the loaded table and its returns.
Geography == GeographyAnalyzer(loaded.table, returns.table)

AnalyzeDrawdownByRegionCall ==
    Returned("analyze_drawdown_by_region", NoTable, AnalyzeDrawdownByRegion(Geography), FALSE)

GetGeographicSummaryCall ==
    \E summary \in {GetGeographicSummary(Geography)} :
        Returned("get_geographic_summary", NoTable,
                 [total_return |-> summary.total_return,
                  max_drawdown |-> summary.max_drawdown], summary.raised)

NextCompare ==
    \/ CalculateMaxDrawdownCall
    \/ GetPerformanceSummaryCall
    \/ AnalyzeDrawdownByRegionCall
    \/ GetGeographicSummaryCall

SpecCompare == InitCompare /\ [][NextCompare]_vars

\* ------------- specification: repeated calls on the two analyzers
\* Price tables with one asset or two regions; the caller keeps the first
\* result either analyzer returns.
FramePaths ==
    {<<>>, <<Num(100)>>, <<Num(100), Num(50)>>, <<Num(100), Num(150), Num(75)>>,
     <<Num(100), Num(50), Num(100), Num(100)>>}

FrameRegions ==
    {<< <<Num(100), Num(50), Num(100)>>, <<Num(100), Num(150), Num(75)>> >>,
     << <<Num(100), Num(150), Num(75)>>, <<Num(100), Num(100), Num(100)>> >>,
     << <<Num(100), Num(50), Num(100)>>, <<Num(100), NaN, Num(50)>> >>,
     << <<Num(100), Num(50)>>, <<Num(50), Num(100)>> >>}

FrameTables ==
    {OneAssetTable(p) : p \in FramePaths}
        \cup {TwoAssetTable(p[1], p[2]) : p \in FrameRegions}

InitFrame ==
    /\ hash_salt = 0 /\ np_random = 0
    /\ NewLoader(1, MaxDate)
    /\ call = NoCall
    /\ \E P \in FrameTables, fill \in PandasFills :
         /\ loaded = [raised |-> FALSE, table |-> P]
         /\ returns = [made |-> TRUE, fill |-> fill, table |-> GetReturns(P, fill)]
         /\ analyzer = PerformanceAnalyzer(GetReturns(P, fill))
    /\ metric = NoMetric /\ first_result = NoMetric
    /\ IdleConv /\ IdleRun /\ IdleMock

\* The arguments the calls are made with: the default risk-free rate, years
\* of one or two trading days, a window of two rows, a metric name
\* get_rolling_metrics knows or not.
FrameRates == {Rat(2, 100)}

FrameDays == {1, 2}

FrameWindows == {2}

FrameMetrics == {"volatility", "sharpe", "unknown"}

CalculateAnnualizedReturnCall ==
    \E trading_days \in FrameDays :
        /\ Annualizable(analyzer, trading_days)
        /\ \E r \in {CalculateAnnualizedReturn(analyzer, trading_days)} :
              Returned("calculate_annualized_return", NoTable,
                       [trading_days |-> trading_days, annualized |-> r.series], r.raised)

CalculateAnnualizedVolatilityCall ==
    \E trading_days \in FrameDays :
        Returned("calculate_annualized_volatility", NoTable,
                 [trading_days |-> trading_days,
                  volatility |-> CalculateAnnualizedVolatility(analyzer, trading_days)],
                 FALSE)

FrameSharpeRatioCall ==
    \E risk_free_rate \in FrameRates, trading_days \in FrameDays :
        /\ Annualizable(analyzer, trading_days)
        /\ \E r \in {CalculateSharpeRatio(analyzer, risk_free_rate, trading_days)} :
              Returned("calculate_sharpe_ratio", NoTable,
                       [risk_free_rate |-> risk_free_rate,
                        trading_days |-> trading_days, sharpe |-> r.series], r.raised)

CalculateSortinoRatioCall ==
    \E risk_free_rate \in FrameRates, trading_days \in FrameDays :
        /\ Annualizable(analyzer, trading_days)
        /\ \E r \in {CalculateSortinoRatio(analyzer, risk_free_rate, trading_days)} :
              Returned("calculate_sortino_ratio", NoTable,
                       [risk_free_rate |-> risk_free_rate,
                        trading_days |-> trading_days, sortino |-> r.series], r.raised)

FrameRollingMetricsCall ==
    \E window \in FrameWindows, name \in FrameMetrics :
        \E r \in {GetRollingMetrics(analyzer, window, name)} :
            Returned("get_rolling_metrics", r.table,
                     [name |-> name, window |-> window, error |-> r.error], r.raised)

RegionsRelativePerformanceCall ==
    \E r \in {CalculateRelativePerformance(Geography)} :
        Returned("calculate_relative_performance", r.table, <<>>, r.raised)

RegionsContributionCall ==
    \E r \in {CalculateRegionalContribution(Geography)} :
        Returned("calculate_regional_contribution", NoTable, r.series, r.raised)

RegionsBestWorstPerformersCall ==
    \E r \in {GetBestWorstPerformers(Geography)} :
        Returned("get_best_worst_performers", NoTable, r.result, r.raised)

RegionsCorrelationsCall ==
    Returned("calculate_regional_correlations", NoTable,
             CalculateRegionalCorrelations(Geography), FALSE)

CalculateDiversificationRatioCall ==
    \E r \in {CalculateDiversificationRatio(Geography)} :
        Returned("calculate_diversification_ratio", NoTable,
                 [weighted_vols |-> r.weighted_vols, portfolio_vol |-> r.portfolio_vol],
                 r.raised)

CalculateRegionalVolatilityCall ==
    \E annualization_factor \in FrameDays :
        Returned("calculate_regional_volatility", NoTable,
                 [trading_days |-> annualization_factor,
                  volatility |-> CalculateRegionalVolatility(Geography,
                                                             annualization_factor)],
                 FALSE)

\* The annualized return of every region is an exact rational.
RegionsAnnualizable(self, trading_days) ==
    IF Len(self.prices.index) = 0 \/ Len(self.returns.index) = 0 THEN TRUE
    ELSE {c \in Range(self.prices.columns) :
            ~ExactPower(GrowthFactor(self, c), InverseYears(self, trading_days))} = {}

CalculateRiskAdjustedReturnsCall ==
    \E risk_free_rate \in FrameRates, trading_days \in FrameDays :
        /\ RegionsAnnualizable(Geography, trading_days)
        /\ \E r \in {CalculateRiskAdjustedReturns(Geography, risk_free_rate,
                                                  trading_days)} :
              Returned("calculate_risk_adjusted_returns", NoTable,
                       [risk_free_rate |-> risk_free_rate,
                        trading_days |-> trading_days, risk_adjusted |-> r.table],
                       r.raised)

NextFrame ==
    \/ CalculateCumulativeReturnsCall
    \/ CalculateDrawdownsCall
    \/ CalculateMaxDrawdownCall
    \/ CalculateCorrelationMatrixCall
    \/ CalculateAnnualizedReturnCall
    \/ CalculateAnnualizedVolatilityCall
    \/ FrameSharpeRatioCall
    \/ CalculateSortinoRatioCall
    \/ GetPerformanceSummaryCall
    \/ FrameRollingMetricsCall
    \/ RegionsRelativePerformanceCall
    \/ RegionsContributionCall
    \/ RegionsBestWorstPerformersCall
    \/ RegionsCorrelationsCall
    \/ CalculateDiversificationRatioCall
    \/ CalculateRegionalVolatilityCall
    \/ CalculateRiskAdjustedReturnsCall
    \/ AnalyzeDrawdownByRegionCall
    \/ GetGeographicSummaryCall

SpecFrame == InitFrame /\ [][NextFrame]_vars

\* ------------------------------------------- specification: the pipeline
DateArgs ==
    {NoneArg} \cup {[given |-> TRUE, format |-> f, day |-> d] : f \in {"dmy", "iso"}, d \in Dates}

RunAnswers == {NoRows("error"), Rows("close", 1, MaxDate)}

InitRun ==
    /\ hash_salt \in 0..MaxSalt
    /\ np_random = 0
    /\ start_date = 0 /\ end_date = 0 /\ usd_eur_rate = NoRate
    /\ pc = "cli"
    /\ args = NoArgs
    /\ market \in [ConfigTickers \cup {Config.CURRENCY_PAIR} -> RunAnswers]
    /\ outcome = NoOutcome
    /\ config = Config
    /\ IdleCall /\ IdleConv /\ IdleAnalysis /\ IdleMock

\* validate_date: only DD/MM/YYYY parses.
ValidDate(arg) == arg.format = "dmy"

\* main, up to the construction of the analyzer: the arguments are parsed and
\* validated; sys.exit(1) on a malformed date or on start >= end.
MainValidate ==
    /\ pc = "cli"
    /\ \E s \in DateArgs, e \in DateArgs :
         /\ args' = [start_date |-> s, end_date |-> e]
         /\ IF \/ s.given /\ ~ValidDate(s)
               \/ e.given /\ ~ValidDate(e)
               \/ s.given /\ e.given /\ s.day >= e.day
            THEN pc' = "finished" /\ outcome' = [NoOutcome EXCEPT !.exit_status = 1]
            ELSE pc' = "validated" /\ outcome' = outcome
    /\ UNCHANGED <<loaderVars, call, loaded, returns, conv, analyzer, metric,
                   market, run_no, mock_log, config, first_result>>

\* FactorInvestingAnalyzer.__init__: the dates given override Config's, and
\* FactorDataLoader.__init__ parses both with "%d/%m/%Y"; a date in another
\* format raises ValueError, which nothing catches.
Construct ==
    /\ pc = "validated"
    /\ LET s == IF args.start_date.given THEN args.start_date ELSE Config.START_DATE
           e == IF args.end_date.given THEN args.end_date ELSE Config.END_DATE
       IN  IF ValidDate(s) /\ ValidDate(e)
           THEN /\ pc' = "ready"
                /\ start_date' = s.day /\ end_date' = e.day
                /\ outcome' = outcome
           ELSE /\ pc' = "crashed"
                /\ UNCHANGED <<start_date, end_date>>
                /\ outcome' = [NoOutcome EXCEPT !.exit_status = 1]
    /\ usd_eur_rate' = NoRate
    /\ UNCHANGED <<hash_salt, np_random, call, loaded, returns, conv, analyzer, metric,
                   args, market, run_no, mock_log, config, first_result>>

\* analyzer.run()
RunCall ==
    /\ pc = "ready"
    /\ \E fill \in PandasFills :
         \E r \in {Run(Self, config, market, fill)} :
            /\ outcome' = [stages |-> r.stages, complete |-> r.complete,
                           exit_status |-> r.exit_status]
            /\ usd_eur_rate' = r.loader.usd_eur_rate
            /\ np_random' = r.loader.np_random
    /\ pc' = "finished"
    /\ UNCHANGED <<hash_salt, start_date, end_date, call, loaded, returns, conv,
                   analyzer, metric, args, market, run_no, mock_log, config, first_result>>

NextRun == MainValidate \/ Construct \/ RunCall

SpecRun == InitRun /\ [][NextRun]_vars

\* ------------------------------------- specification: the stages of a run
\* A FactorInvestingAnalyzer constructed with both dates given as DD/MM/YYYY;
\* its caller may define USD_TICKERS on analyzer.config before run().
StageAnswers == {NoRows("error"), Rows("close", 1, 1), Rows("close", 1, MaxDate)}

StageFxAnswers == {NoRows("error"), Rows("close", 1, MaxDate)}

FactorTickerSet == {Config.FACTOR_TICKERS[i][2] : i \in 1..Len(Config.FACTOR_TICKERS)}

\* The data source answers factors for every factor ticker, geography for
\* every geography ticker and fx for the currency pair.
StageMarket(factors, geography, fx) ==
    [t \in ConfigTickers \cup {Config.CURRENCY_PAIR} |->
        IF t = Config.CURRENCY_PAIR THEN fx
        ELSE IF t \in FactorTickerSet THEN factors ELSE geography]

GivenDate(d) == [given |-> TRUE, format |-> "dmy", day |-> d]

\* Config with the attribute USD_TICKERS set to usd_tickers.
WithUsdTickers(usd_tickers) ==
    [a \in DOMAIN Config \cup {"USD_TICKERS"} |->
        IF a = "USD_TICKERS" THEN usd_tickers ELSE Config[a]]

InitStages ==
    /\ hash_salt \in 0..MaxSalt
    /\ np_random = 0
    /\ \E r \in DateRanges :
         /\ NewLoader(r[1], r[2])
         /\ args = [start_date |-> GivenDate(r[1]), end_date |-> GivenDate(r[2])]
    /\ pc = "ready"
    /\ market \in {StageMarket(f, g, x) :
                      f \in StageAnswers, g \in StageAnswers, x \in StageFxAnswers}
    /\ outcome = NoOutcome
    /\ config = Config
    /\ IdleCall /\ IdleConv /\ IdleAnalysis /\ IdleMock

\* analyzer.config.USD_TICKERS = usd_tickers, by the caller, before run().
SetUsdTickers ==
    /\ pc = "ready"
    /\ \E usd_tickers \in UsdTickerLists : config' = WithUsdTickers(usd_tickers)
    /\ UNCHANGED <<loaderVars, call, loaded, returns, conv, analyzer, metric, pc, args,
                   market, outcome, run_no, mock_log, first_result>>

NextStages == SetUsdTickers \/ RunCall

SpecStages == InitStages /\ [][NextStages]_vars

\* ================================================================= claims
\* The fetch of a ticker failed: no data, no price column, or an exception.
Failed(answer) == answer.kind \in {"error", "empty", "nocol", "bad"}

\* Column name of table holds exactly series: the same value on every row,
\* NaN where series has no date, and series is NaN on any date without a row.
ColumnIs(table, name, series) ==
    /\ \A d \in Range(table.index) :
          table.data[name][d] = IF d \in DOMAIN series THEN series[d] ELSE NaN
    /\ \A d \in DOMAIN series : d \notin Range(table.index) => IsNaN(series[d])

\* The prices the loader reads from a frame: adjusted close, else close.
FetchedPrices(ticker, answer) ==
    [d \in answer.lo .. answer.hi |->
        IF answer.kind = "adj" THEN AdjClosePrice(ticker, d) ELSE ClosePrice(ticker, d)]

\* C1: after load_tickers on a non-empty tickers_dict, whatever each fetch
\* answered, the call has not raised, the table has exactly one column per
\* display name, and the column of every failed ticker is the synthetic
\* series of its name.
C1_FailedTickersFallBack ==
    (call.made /\ call.tickers_dict # <<>>) =>
        /\ ~loaded.raised
        /\ Len(loaded.table.columns) = Cardinality(Names(call.tickers_dict))
        /\ Range(loaded.table.columns) = Names(call.tickers_dict)
        /\ \A n \in Names(call.tickers_dict) :
              Failed(call.answers[n]) =>
                  ColumnIs(loaded.table, n,
                           GenerateMockData(n, hash_salt, start_date, end_date).series)

\* A call with two tickers: one frame without a price column, one fetched.
C1_Witness ==
    /\ call.made /\ ~loaded.raised
    /\ \E n, m \in Names(call.tickers_dict) :
          /\ call.answers[n].kind = "nocol"
          /\ ~Failed(call.answers[m])
          /\ Len(loaded.table.columns) = 2

\* C3: load_tickers raises ValueError exactly when no series was assembled,
\* which is when tickers_dict has no entry; otherwise it returns a table with
\* at least one column, also when every fetch failed.
C3_RaisesOnlyWithoutSeries ==
    call.made =>
        /\ loaded.raised <=> call.tickers_dict = <<>>
        /\ ~loaded.raised => Len(loaded.table.columns) >= 1

\* The call that raises.
C3_Witness == call.made /\ loaded.raised

\* C4 (as claimed): get_returns of a loaded price table with at least one row
\* has exactly one row less and the same columns; stated for the library
\* whose pct_change pads, where only a leading gap of a column stays missing.
C4_ReturnsOneRowLess ==
    (returns.made /\ returns.fill = "pad" /\ Len(loaded.table.index) >= 1) =>
        /\ Len(returns.table.index) = Len(loaded.table.index) - 1
        /\ returns.table.columns = loaded.table.columns

\* The exchange-rate fetch of a call succeeded: rows with a 'Close' column.
FxAvailable(fx) == fx.kind \in {"close", "adj"} /\ fx.lo <= fx.hi

\* The rate the claim names for date d of the last call: 1 / Close of the
\* latest date at or before d of the series fetched in that call, or 0.91
\* when that fetch failed.
RateOfThisCall(d) ==
    IF FxAvailable(call.fx)
    THEN LET earlier == {r \in call.fx.lo .. call.fx.hi : r <= d}
         IN  IF earlier = {} THEN NaN
             ELSE RDiv(Num(1), ClosePrice("EURUSD=X",
                                          CHOOSE r \in earlier : \A q \in earlier : q <= r))
    ELSE Rat(91, 100)

\* C5 (as claimed): in every call, the column of a flagged ticker with
\* fetched data is its prices times the rate of that call: the constant 0.91
\* when the call's rate fetch failed, else 1 / Close of the series it fetched.
C5_ConvertedWithThisCallsRate ==
    call.made =>
        \A n \in Names(call.tickers_dict) :
            LET ticker == TickerFor(call.tickers_dict, n)
                prices == FetchedPrices(ticker, call.answers[n])
            IN  (ticker \in Range(call.usd_tickers) /\ ~Failed(call.answers[n])) =>
                    ColumnIs(loaded.table, n,
                             [d \in DOMAIN prices |-> RMul(prices[d], RateOfThisCall(d))])

\* C6: with a rate series, _convert_usd_to_eur returns a series on exactly
\* the asset's dates; its value on date d is price(d) times the rate of the
\* latest rate date at or before d, and NaN when every rate date is later.
C6_ConvertedOnAssetDates ==
    (conv.done /\ usd_eur_rate.some) =>
        /\ DOMAIN conv.result = DOMAIN conv.usd_prices
        /\ \A d \in DOMAIN conv.usd_prices :
              LET earlier == {r \in DOMAIN usd_eur_rate.series : r <= d}
              IN  conv.result[d] =
                    IF earlier = {} THEN NaN
                    ELSE RMul(conv.usd_prices[d],
                              usd_eur_rate.series[CHOOSE r \in earlier : \A q \in earlier : q <= r])

\* An asset date before the first rate date, an asset date filled forward
\* from an earlier rate date, and a rate date that is no asset date.
C6_Witness ==
    /\ conv.done /\ usd_eur_rate.some
    /\ \E d \in DOMAIN conv.usd_prices : IsNaN(conv.result[d])
    /\ \E d \in DOMAIN conv.usd_prices :
          d \notin DOMAIN usd_eur_rate.series /\ ~IsNaN(conv.result[d])
    /\ DOMAIN usd_eur_rate.series \ DOMAIN conv.usd_prices # {}

\* C7 (as claimed): two invocations of _generate_mock_data with the same
\* name and the same date range return the same price path, in one process
\* and across two processes.
C7_SameNameSamePath ==
    \A r1, r2 \in 1..MaxRuns :
        \A e1 \in mock_log[r1], e2 \in mock_log[r2] :
            (e1.name = e2.name /\ e1.start = e2.start /\ e1.end = e2.end) =>
                e1.series = e2.series

\* Every market-data fetch of the run fails.
AllFetchesFail == \A t \in DOMAIN market : market[t].kind = "error"

\* C2 (as claimed): a run with valid dates in which every fetch fails
\* completes all three stages on fallback data, reaches 'ANALYSIS COMPLETE'
\* and does not exit with an error status.
C2_RunCompletesOnFallbackData ==
    ( /\ pc = "finished"
      /\ args.start_date.given /\ ValidDate(args.start_date)
      /\ args.end_date.given /\ ValidDate(args.end_date)
      /\ args.start_date.day < args.end_date.day
      /\ AllFetchesFail ) =>
        /\ outcome.stages = <<"load_data", "analyze_factors", "analyze_geography">>
        /\ outcome.complete
        /\ outcome.exit_status = 0

\* Every return of the analyzer's table is above -1.
ReturnsAboveMinusOne ==
    \A c \in Range(analyzer.returns.columns) :
        \A i \in 1..Len(analyzer.returns.index) :
            RLt(Num(-1), Val(analyzer.returns, c, i))

\* The price of row i is the highest of rows 1..i.
AtRunningPeak(c, i) ==
    \A j \in 1..i : RLe(Val(analyzer.prices, c, j), Val(analyzer.prices, c, i))

\* C8: for returns above -1, every drawdown is at most 0, and it is 0 on
\* every date on which the reconstructed price is at its running maximum.
C8_DrawdownsNonPositive ==
    (metric.op = "calculate_drawdowns" /\ ReturnsAboveMinusOne) =>
        \A c \in Range(analyzer.returns.columns) :
            \A i \in 1..Len(analyzer.returns.index) :
                /\ RLe(Val(metric.table, c, i), Num(0))
                /\ AtRunningPeak(c, i) => Val(metric.table, c, i) = Num(0)

\* A decline below an earlier peak, followed by a new peak.
C8_Witness ==
    /\ metric.op = "calculate_drawdowns" /\ ReturnsAboveMinusOne
    /\ \E i, j \in 1..Len(analyzer.returns.index) :
          /\ i < j
          /\ RLt(Val(metric.table, "Asset", i), Num(0))
          /\ AtRunningPeak("Asset", j)
          /\ Val(metric.table, "Asset", j) = Num(0)

\* The product of (1 + r) over rows i..last, multiplied from the last row.
RECURSIVE ProductFrom(_, _, _)
ProductFrom(t, c, i) ==
    IF i > Len(t.index) THEN Num(1)
    ELSE RMul(RAdd(Num(1), Val(t, c, i)), ProductFrom(t, c, i + 1))

TotalReturn(c) == RSub(ProductFrom(analyzer.returns, c, 1), Num(1))

\* C9: on a return table with at least one row, the last row of
\* calculate_cumulative_returns is product(1 + r) - 1 per asset, and
\* get_performance_summary reports that value as 'Total Return'; for the
\* returns 0.01, -0.02, 0.03 it is 1.01 * 0.98 * 1.03 - 1.
C9_TotalReturnIsProduct ==
    Len(analyzer.returns.index) >= 1 =>
        /\ metric.op = "calculate_cumulative_returns" =>
              \A c \in Range(analyzer.returns.columns) :
                  LastRow(metric.table)[c] = TotalReturn(c)
        /\ metric.op = "get_performance_summary" =>
              /\ ~metric.raised
              /\ \A c \in Range(analyzer.returns.columns) :
                    metric.series.total_return[c] = TotalReturn(c)
              /\ analyzer.returns = OneAssetTable(ScenarioReturns) =>
                    metric.series.total_return["Asset"] =
                        Rat(101 * 98 * 103 - 1000000, 1000000)

\* The summary of the returns 0.01, -0.02, 0.03.
C9_Witness ==
    /\ metric.op = "get_performance_summary"
    /\ analyzer.returns = OneAssetTable(ScenarioReturns)
    /\ metric.series.total_return["Asset"] = Rat(19494, 1000000)

\* C10: calculate_max_drawdown is, per asset, a value of the drawdown series
\* that no other value of it is below; for the prices 100, 110, 95, 120 fed
\* through get_returns it is (95 - 110) / 110.
C10_MaxDrawdownIsMinimum ==
    (metric.op = "calculate_max_drawdown" /\ Len(analyzer.returns.index) >= 1) =>
        \A c \in Range(analyzer.returns.columns) :
            /\ \E i \in 1..Len(analyzer.returns.index) :
                  metric.series[c] = Val(CalculateDrawdowns(analyzer), c, i)
            /\ \A i \in 1..Len(analyzer.returns.index) :
                  RLe(metric.series[c], Val(CalculateDrawdowns(analyzer), c, i))
            /\ analyzer.returns = GetReturns(OneAssetTable(ScenarioPrices), "pad") =>
                  metric.series[c] = Rat(95 - 110, 110)

\* The maximum drawdown of the prices 100, 110, 95, 120.
C10_Witness ==
    /\ metric.op = "calculate_max_drawdown"
    /\ analyzer.returns = GetReturns(OneAssetTable(ScenarioPrices), "pad")
    /\ metric.series["Asset"] = Rat(-15, 110)

\* C11: get_rolling_metrics with a metric name outside 'volatility',
\* 'return', 'sharpe' raises ValueError 'Unknown metric' whatever the window
\* and the return table, and returns no table; with a name inside the set it
\* never raises that error; and the call leaves the analyzer's returns and
\* prices as they were.
C11_UnknownMetricRaises ==
    /\ [](metric.op = "get_rolling_metrics" =>
            IF metric.series.name \in {"volatility", "return", "sharpe"}
            THEN metric.series.error # "Unknown metric"
            ELSE /\ metric.raised
                 /\ metric.series.error = "Unknown metric"
                 /\ metric.table = NoTable)
    /\ [][metric'.op = "get_rolling_metrics" => analyzer' = analyzer]_vars

\* An unknown name with a window rolling() itself would reject, on a table
\* with rows.
C11_Witness ==
    /\ metric.op = "get_rolling_metrics"
    /\ metric.series.name = "unknown"
    /\ metric.series.window = -1
    /\ Len(analyzer.returns.index) >= 2
    /\ metric.raised /\ metric.series.error = "Unknown metric"

\* The trailing w returns ending at row i.
Trailing(c, i, w) == [k \in 1..w |-> Val(analyzer.returns, c, i - w + k)]

\* The sample variance by the sum of squares: (sum x^2 - (sum x)^2 / w) / (w - 1).
SumOfSquaresVariance(vs) ==
    RDiv(RSub(SeqSum([k \in 1..Len(vs) |-> RMul(vs[k], vs[k])]),
              RDiv(RMul(SeqSum(vs), SeqSum(vs)), Num(Len(vs)))),
         Num(Len(vs) - 1))

ExpectedRollingVolatility(vs) == RSqrt(RMul(SumOfSquaresVariance(vs), Num(252)))

ExpectedRollingReturn(vs) == RDiv(RMul(SeqSum(vs), Num(252)), Num(Len(vs)))

ExpectedRolling(name, vs) ==
    IF name = "volatility" THEN ExpectedRollingVolatility(vs)
    ELSE IF name = "return" THEN ExpectedRollingReturn(vs)
    ELSE QDiv(ExpectedRollingReturn(vs), ExpectedRollingVolatility(vs))

\* C13: for a valid metric and a window w >= 2, get_rolling_metrics returns
\* a table with the rows and columns of the return table, undefined on the
\* first w - 1 rows of every asset, and on every later row the metric of
\* exactly the w returns ending at that row.
C13_RollingUsesTrailingWindow ==
    ( /\ metric.op = "get_rolling_metrics"
      /\ metric.series.name \in {"volatility", "return", "sharpe"}
      /\ metric.series.window >= 2 ) =>
        /\ ~metric.raised
        /\ metric.table.columns = analyzer.returns.columns
        /\ metric.table.index = analyzer.returns.index
        /\ \A c \in Range(analyzer.returns.columns) :
              \A i \in 1..Len(analyzer.returns.index) :
                  IF i < metric.series.window
                  THEN IsNaN(Val(metric.table, c, i))
                  ELSE Val(metric.table, c, i) =
                          ExpectedRolling(metric.series.name,
                                          Trailing(c, i, metric.series.window))

\* A rolling Sharpe ratio with window 2 over three rows: the first row is
\* undefined, the last one is a number.
C13_Witness ==
    /\ metric.op = "get_rolling_metrics"
    /\ metric.series.name = "sharpe"
    /\ metric.series.window = 2
    /\ Len(analyzer.returns.index) = 3
    /\ IsNaN(Val(metric.table, "Asset", 1))
    /\ ~IsNaN(Val(metric.table, "Asset", 2))
    /\ Val(metric.table, "Asset", 3) # Val(metric.table, "Asset", 2)
    /\ IsRoot(Val(metric.table, "Asset", 3))

\* The annualized volatility of the asset is zero: at least two returns, all
\* of them equal.
ZeroVolatility ==
    /\ Len(analyzer.returns.index) >= 2
    /\ \A i \in 1..Len(analyzer.returns.index) :
          Val(analyzer.returns, "Asset", i) = Val(analyzer.returns, "Asset", 1)

\* C12 (as claimed): for a return series without volatility,
\* calculate_sharpe_ratio and the 'Sharpe Ratio' of get_performance_summary
\* return without raising and the asset's value is not-a-number; stated for
\* returns above -1, the default risk-free rate 0.02 and 252 trading days.
C12_ZeroVolatilitySharpeIsNaN ==
    ( /\ metric.op \in {"calculate_sharpe_ratio", "get_performance_summary"}
      /\ "sharpe" \in DOMAIN metric.series
      /\ metric.series.risk_free_rate = Rat(2, 100)
      /\ metric.series.trading_days = 252
      /\ ReturnsAboveMinusOne
      /\ ZeroVolatility ) =>
        /\ ~metric.raised
        /\ IsNaN(metric.series.sharpe["Asset"])

\* C14 (as claimed): for every price table handed to GeographyAnalyzer,
\* also one whose assets start on different dates,
\* calculate_relative_performance returns a table whose first row is 100 for
\* every asset and whose other values are price(t) / price(first) * 100.
C14_FirstRowIsHundred ==
    metric.op = "calculate_relative_performance" =>
        /\ ~metric.raised
        /\ \A c \in Range(analyzer.prices.columns) :
              /\ Val(metric.table, c, 1) = Num(100)
              /\ \A i \in 1..Len(analyzer.prices.index) :
                    Val(metric.table, c, i) =
                        RDiv(RMul(Val(analyzer.prices, c, i), Num(100)),
                             Val(analyzer.prices, c, 1))

\* The final-row prices of all assets are positive numbers.
FinalPricesPositive ==
    \A c \in Range(analyzer.prices.columns) :
        RLt(Num(0), Val(analyzer.prices, c, Len(analyzer.prices.index)))

\* The sum of the final-row prices that are there.
RECURSIVE FinalTotal(_)
FinalTotal(k) ==
    IF k = 0 THEN Num(0)
    ELSE LET x == Val(analyzer.prices, analyzer.prices.columns[k],
                      Len(analyzer.prices.index))
         IN  IF IsNaN(x) THEN FinalTotal(k - 1) ELSE RAdd(FinalTotal(k - 1), x)

RECURSIVE ContributionTotal(_)
ContributionTotal(k) ==
    IF k = 0 THEN Num(0)
    ELSE RAdd(ContributionTotal(k - 1), metric.series[analyzer.prices.columns[k]])

\* C15: calculate_regional_contribution returns per asset its final-row price
\* as a percentage of the sum of the final-row prices; when the final prices
\* are positive every contribution is in (0, 100] and they add up to 100.
C15_ContributionIsShareOfFinalRow ==
    (metric.op = "calculate_regional_contribution" /\ ~metric.raised) =>
        /\ \A c \in Range(analyzer.prices.columns) :
              metric.series[c] =
                  RDiv(RMul(Val(analyzer.prices, c, Len(analyzer.prices.index)), Num(100)),
                       FinalTotal(Len(analyzer.prices.columns)))
        /\ FinalPricesPositive =>
              /\ \A c \in Range(analyzer.prices.columns) :
                    RLt(Num(0), metric.series[c]) /\ RLe(metric.series[c], Num(100))
              /\ ContributionTotal(Len(analyzer.prices.columns)) = Num(100)

\* Two regions with different positive final prices, on a table whose first
\* row differs from its last.
C15_Witness ==
    /\ metric.op = "calculate_regional_contribution" /\ ~metric.raised
    /\ FinalPricesPositive
    /\ Len(analyzer.prices.index) >= 2
    /\ metric.series["US Market"] # metric.series["Europe"]
    /\ RAdd(metric.series["US Market"], metric.series["Europe"]) = Num(100)

\* The first and the last price an asset has.
FirstPrice(c) ==
    Val(analyzer.prices, c,
        CHOOSE i \in 1..Len(analyzer.prices.index) :
            /\ ~IsNaN(Val(analyzer.prices, c, i))
            /\ \A j \in 1..(i - 1) : IsNaN(Val(analyzer.prices, c, j)))

LastPrice(c) ==
    Val(analyzer.prices, c,
        CHOOSE i \in 1..Len(analyzer.prices.index) :
            /\ ~IsNaN(Val(analyzer.prices, c, i))
            /\ \A j \in (i + 1)..Len(analyzer.prices.index) :
                  IsNaN(Val(analyzer.prices, c, j)))

AssetReturn(c) == RMul(RSub(RDiv(LastPrice(c), FirstPrice(c)), Num(1)), Num(100))

\* C16 (as claimed): get_best_worst_performers returns as 'best' an asset
\* whose last_price / first_price - 1 no asset of the table exceeds, as
\* 'worst' one that no asset is below, with best_return >= worst_return and
\* the reported returns those assets' own.
C16_BestAndWorstOverAllAssets ==
    metric.op = "get_best_worst_performers" =>
        /\ ~metric.raised
        /\ metric.series.best \in Range(analyzer.prices.columns)
        /\ metric.series.worst \in Range(analyzer.prices.columns)
        /\ metric.series.best_return = AssetReturn(metric.series.best)
        /\ metric.series.worst_return = AssetReturn(metric.series.worst)
        /\ RLe(metric.series.worst_return, metric.series.best_return)
        /\ \A c \in Range(analyzer.prices.columns) :
              /\ RLe(AssetReturn(c), metric.series.best_return)
              /\ RLe(metric.series.worst_return, AssetReturn(c))

\* C17 (as claimed): the correlation matrix of every return table is
\* symmetric, has 1 on the diagonal and every entry in [-1, 1], also when an
\* asset's returns are constant; stated for tables of at least two rows.
C17_CorrelationMatrixWellFormed ==
    ( /\ metric.op \in {"calculate_correlation_matrix", "calculate_regional_correlations"}
      /\ Len(analyzer.returns.index) >= 2 ) =>
        \A a, b \in Range(analyzer.returns.columns) :
            /\ metric.series[a][b] = metric.series[b][a]
            /\ metric.series[a][a] = Num(1)
            /\ QLe(Num(-1), metric.series[a][b])
            /\ QLe(metric.series[a][b], Num(1))

\* The returns of asset c are not all the same (so there are two at least).
Varies(c) ==
    \E i \in 1..Len(analyzer.returns.index) :
        Val(analyzer.returns, c, i) # Val(analyzer.returns, c, 1)

\* C17 (amended): the correlation matrix is symmetric; the entry of two
\* assets whose returns both vary is in [-1, 1], and 1 on the diagonal; the
\* entry of an asset whose returns are constant, its diagonal entry
\* included, is undefined.
C17_CorrelationOfVaryingAssets ==
    metric.op \in {"calculate_correlation_matrix", "calculate_regional_correlations"} =>
        \A a, b \in Range(analyzer.returns.columns) :
            /\ metric.series[a][b] = metric.series[b][a]
            /\ IF Varies(a) /\ Varies(b)
               THEN /\ QLe(Num(-1), metric.series[a][b])
                    /\ QLe(metric.series[a][b], Num(1))
                    /\ metric.series[a][a] = Num(1)
               ELSE IsNaN(metric.series[a][b])

\* Two varying assets that are neither uncorrelated nor perfectly
\* correlated.
C17_Witness ==
    /\ metric.op = "calculate_correlation_matrix"
    /\ Varies("US Market") /\ Varies("Europe")
    /\ metric.series["US Market"]["US Market"] = Num(1)
    /\ metric.series["US Market"]["Europe"] \notin {Num(-1), Num(0), Num(1)}
    /\ QLe(metric.series["US Market"]["Europe"], Num(0))

\* C18: run starts load_data, analyze_factors and analyze_geography in that
\* order; once a stage raised no later stage is started, 'ANALYSIS COMPLETE'
\* is not reached and the exit status is 1; 'ANALYSIS COMPLETE' is reached
\* only after all three stages were started and none raised.
StageOrder == <<"load_data", "analyze_factors", "analyze_geography">>

RunHappened == pc = "finished" /\ outcome.stages # <<>>

NoDatesGiven == ~args.start_date.given /\ ~args.end_date.given

C19_DefaultsConstructLoader ==
    (pc \notin {"cli", "validated"} /\ NoDatesGiven) => pc # "crashed"

\* C20: the table load_tickers returns has one strictly increasing date
\* index shared by all columns: exactly the dates on which at least one asset
\* has a value, so no row has every column missing.
\* Asset name has a value on date d: a synthetic price on a business day of
\* the loader's range, a fetched price on a date of its frame, and for a
\* converted ticker only from the first date of the rate on.
HasValue(name, d) ==
    LET answer == call.answers[name]
        ticker == TickerFor(call.tickers_dict, name)
    IN  IF Failed(answer) THEN d \in BDateRange(start_date, end_date)
        ELSE /\ d \in answer.lo .. answer.hi
             /\ (ticker \in Range(call.usd_tickers) /\ usd_eur_rate.some) =>
                   \E r \in DOMAIN usd_eur_rate.series : r <= d

ValuedDates == {d \in Dates : \E n \in Names(call.tickers_dict) : HasValue(n, d)}

C20_IndexIsUnionOfValuedDates ==
    (call.made /\ ~loaded.raised) =>
        LET index == loaded.table.index
        IN  /\ \A i \in 1..(Len(index) - 1) : index[i] < index[i + 1]
            /\ Range(index) = ValuedDates
            /\ \A c \in Range(loaded.table.columns) :
                  DOMAIN loaded.table.data[c] = Range(index)
            /\ \A d \in Range(index) :
                  \E c \in Range(loaded.table.columns) : ~IsNaN(loaded.table.data[c][d])

\* Two assets, and a date of a fetched frame without any value: the row of
\* a converted price before the first rate date was dropped.
C20_Witness ==
    /\ call.made /\ ~loaded.raised
    /\ Len(loaded.table.columns) = 2
    /\ Len(loaded.table.index) >= 2
    /\ \E n \in Names(call.tickers_dict) :
          /\ ~Failed(call.answers[n])
          /\ call.answers[n].lo \notin Range(loaded.table.index)

\* Price table t has a value in every cell.
NoMissingValues(t) ==
    \A c \in Range(t.columns) : \A i \in 1..Len(t.index) : ~IsNaN(Val(t, c, i))

\* C21 (as claimed): for a price table without missing values and with at
\* least two rows, analyze_drawdown_by_region of the GeographyAnalyzer
\* returns, per asset, the maximum drawdown calculate_max_drawdown of the
\* PerformanceAnalyzer over the table's returns computes.
C21_MaxDrawdownsAgree ==
    ( /\ metric.op = "analyze_drawdown_by_region"
      /\ NoMissingValues(loaded.table)
      /\ Len(loaded.table.index) >= 2 ) =>
        metric.series = CalculateMaxDrawdown(analyzer)

\* C25 (as claimed): for a price table load_tickers produced and its
\* returns, the total return GeographyAnalyzer derives from the prices
\* (last / first - 1, in percent) is, per asset, the total return
\* product(1 + r) - 1 PerformanceAnalyzer derives from the returns, also when
\* get_returns dropped rows with a missing value.
C25_TotalReturnsAgree ==
    ( /\ metric.op = "get_geographic_summary"
      /\ ~metric.raised
      /\ loaded.table \in GeographyTables ) =>
        \A c \in Range(loaded.table.columns) :
            metric.series.total_return[c] =
                RMul(GetPerformanceSummary(analyzer).total_return[c], Num(100))

\* The rate a price dated d is multiplied by: the loader's rate on the last
\* rate date at or before d (none: NaN), or the constant when the loader has
\* no rate.
RateOn(d) ==
    IF ~usd_eur_rate.some THEN FallbackRate
    ELSE LET earlier == {r \in DOMAIN usd_eur_rate.series : r <= d}
         IN  IF earlier = {} THEN NaN
             ELSE usd_eur_rate.series[CHOOSE r \in earlier : \A q \in earlier : q <= r]

TimesRate(prices) == [d \in DOMAIN prices |-> RMul(prices[d], RateOn(d))]

Flagged(name) == TickerFor(call.tickers_dict, name) \in Range(call.usd_tickers)

\* C22: load_tickers converts the fetched prices of a ticker exactly when the
\* ticker is in usd_tickers: an unflagged column holds the fetched adjusted
\* close (else close) unchanged, a flagged column with fetched data holds
\* those prices times the rate, and a synthetic series is stored
\* unconverted also for a flagged ticker.
C22_ConvertedIffFlagged ==
    (call.made /\ ~loaded.raised) =>
        \A n \in Names(call.tickers_dict) :
            LET ticker == TickerFor(call.tickers_dict, n)
                fetched == FetchedPrices(ticker, call.answers[n])
            IN  ColumnIs(loaded.table, n,
                         IF Failed(call.answers[n])
                         THEN GenerateMockData(n, hash_salt, start_date, end_date).series
                         ELSE IF Flagged(n) THEN TimesRate(fetched)
                         ELSE fetched)

\* A flagged ticker converted with a fetched rate next to an unflagged one.
C22_Witness ==
    /\ call.made /\ ~loaded.raised
    /\ usd_eur_rate.some
    /\ \E n, m \in Names(call.tickers_dict) :
          /\ Flagged(n) /\ ~Failed(call.answers[n])
          /\ ~Flagged(m) /\ ~Failed(call.answers[m])
          /\ \E d \in Range(loaded.table.index) :
                /\ ~IsNaN(loaded.table.data[n][d])
                /\ loaded.table.data[n][d] #
                      FetchedPrices(TickerFor(call.tickers_dict, n), call.answers[n])[d]
                /\ ~IsNaN(loaded.table.data[m][d])

\* Column name has the same values in t1 and t2 on the dates where it has
\* data, and has data on the same dates.
SameColumn(t1, t2, name) ==
    LET Valued(t) == {d \in Range(t.index) : ~IsNaN(t.data[name][d])}
    IN  /\ Valued(t1) = Valued(t2)
        /\ \A d \in Valued(t1) : t1.data[name][d] = t2.data[name][d]

\* The loader of the call made, before that call, in a process whose hash
\* salt is salt and whose random generator is in state seed.
LoaderBefore(salt, seed) ==
    [Self EXCEPT !.hash_salt = salt, !.np_random = seed,
                 !.usd_eur_rate = call.rate_before]

\* The same call with the other tickers removed.
LoadedAlone(loader, name) ==
    LoadTickers(loader, <<<<name, TickerFor(call.tickers_dict, name)>>>>,
                call.usd_tickers, call.fx, [m \in {name} |-> call.answers[name]]).table

\* The same call with the entries of tickers_dict in reverse order.
LoadedReversed(loader) ==
    LoadTickers(loader,
                [k \in 1..Len(call.tickers_dict) |->
                    call.tickers_dict[Len(call.tickers_dict) + 1 - k]],
                call.usd_tickers, call.fx, call.answers).table

\* The column of name is the same with the other tickers removed or the
\* entries reordered, for a loader in a process with salt.
ColumnIsOwn(name, salts) ==
    \A salt \in salts, seed \in 0..(SeedSpace - 1) :
        /\ SameColumn(loaded.table, LoadedAlone(LoaderBefore(salt, seed), name), name)
        /\ SameColumn(loaded.table, LoadedReversed(LoaderBefore(salt, seed)), name)

\* C23 (as claimed): the column of a ticker depends only on its own fetch
\* outcome, its display name, the date range and the exchange-rate outcome:
\* whatever process makes the call, and whatever the other entries of
\* tickers_dict and their order, the column has the same values.
C23_ColumnDependsOnOwnInputs ==
    (call.made /\ ~loaded.raised) =>
        \A n \in Names(call.tickers_dict) : ColumnIsOwn(n, 0..MaxSalt)

\* The part of C23 that holds: within the process that made the call.
C23_WithinOneProcess ==
    (call.made /\ ~loaded.raised) =>
        \A n \in Names(call.tickers_dict) : ColumnIsOwn(n, {hash_salt})

\* The arguments a result was asked with.
CallArgs(m) ==
    IF m.op = "get_rolling_metrics" THEN <<m.series.name, m.series.window>>
    ELSE IF m.op \in {"calculate_sharpe_ratio", "calculate_sortino_ratio",
                      "calculate_risk_adjusted_returns"}
         THEN <<m.series.risk_free_rate, m.series.trading_days>>
    ELSE IF m.op \in {"calculate_annualized_return", "calculate_annualized_volatility",
                      "calculate_regional_volatility"}
         THEN <<m.series.trading_days>>
    ELSE <<>>

SameCall(m1, m2) == m1.op = m2.op /\ CallArgs(m1) = CallArgs(m2)

====
